---- MODULE Spec2Model ----
(***************************************************************************)
(* Transport layer of the Makcu serial driver (connection.go,              *)
(* controller.go, mouse.go): command/response correlation, the connection  *)
(* lifecycle and the background read loop, as a state machine.             *)
(*                                                                         *)
(* Goroutines are processes: the callers of SendCommand (Senders), the     *)
(* thread that calls Connect/Disconnect on the controller (cpc), and one   *)
(* listen goroutine per successful Connect (Listeners).  Every step is one *)
(* access to the shared fields of SerialTransport.                         *)
(***************************************************************************)
EXTENDS Integers, Sequences, FiniteSets, TLC

\* ------------------------------------------------------------------ bounds
\* Number of successful Connect calls explored (one listen goroutine each).
MaxConnects == 2
\* Capacity of listen's lineBuffer (256 bytes in the source, line 461),
\* scaled down; the response marker and one letter fill it.
LineCap == 5
\* Number of controller operations one caller makes in a row.
MaxOps == 3
\* Number of lock targets GetAllLockStates goes through (seven in the
\* source, mouse.go 199), scaled down.
MaxTargets == 2

\* ------------------------------------------------------- program constants
maxReconnectAttempts == 3
IdModulus == 10000

\* ------------------------------------------------------------ value spaces
Senders == {"s1", "s2"}
Listeners == 1..MaxConnects

\* Command texts and received lines are sequences of characters.
CmdA == <<"k">>
CmdB == <<"v">>
Cmds == {CmdA, CmdB}
\* The command each caller sends.
CmdOf(s) == IF s = "s1" THEN CmdA ELSE CmdB
Line1 == <<"1">>
Line2 == <<"0", "#", "7">>
Lines == {Line1, Line2}
\* The device's reply "1" to the command that was tagged with id 1.
LateLine == <<"1", "#", "1">>
\* A reply whose text itself holds a '#', tagged with id 7.
HashLine == <<"v", "#", "2", "#", "7">>
\* The lines the device answers with: untagged, tagged, tagged with a '#'
\* in the text.
ReplyLines == Lines \cup {HashLine}

\* What the read loop can hand to processPendingCommands: a reply or an echo.
Contents == Lines \cup Cmds
NoLine == <<>>

\* The id counter is never reset by Connect/Disconnect, so a long-lived
\* transport reaches every residue; the wrap is explored from IdModulus - 2.
StartCounters == {0, IdModulus - 2}

\* Controller operations and their argument (a button, a lock target).
Ops == {"Click", "Move", "Scroll", "Press", "Release", "Lock", "Unlock",
        "GetFirmwareVersion"}
Args(name) ==
  IF name \in {"Click", "Press", "Release"} THEN {"left", "bad"}
  ELSE IF name \in {"Lock", "Unlock"} THEN {"LEFT", "bad"}
  ELSE {"-"}
NoOp == [name |-> "none", arg |-> "-"]
\* The command texts of mouse.go for those arguments.
PressCmd == <<"km.left(1)">>
ReleaseCmd == <<"km.left(0)">>
MoveCmd == <<"km.move(1,1)">>
ScrollCmd == <<"km.wheel(1)">>
LockCmd == <<"km.lock_ml(1)">>
UnlockCmd == <<"km.lock_ml(0)">>
VersionCmd == <<"km.version()">>
QueryCmd == <<"km.lock_ml()">>
\* The targets of GetAllLockStates in its order (mouse.go 199); the model
\* goes through the first MaxTargets of them.
lockTargets == <<"LEFT", "RIGHT", "MIDDLE", "MOUSE4", "MOUSE5", "X", "Y">>
Targets == SubSeq(lockTargets, 1, MaxTargets)
\* lockTargets[name].queryCmd (mouse.go 25-33).
QueryCmdOf(name) ==
  CASE name = "LEFT" -> QueryCmd
    [] name = "RIGHT" -> <<"km.lock_mr()">>
    [] name = "MIDDLE" -> <<"km.lock_mm()">>
    [] name = "MOUSE4" -> <<"km.lock_ms1()">>
    [] name = "MOUSE5" -> <<"km.lock_ms2()">>
    [] name = "X" -> <<"km.lock_mx()">>
    [] OTHER -> <<"km.lock_my()">>
\* The execution contexts that touch the shared tables: the goroutines of
\* two callers and the listen goroutine.
ReadLoop == "listen"
Contexts == Senders \cup {ReadLoop}
\* The functions that access the pending-command table, all between
\* s.commandLock.Lock() and Unlock() (connection.go 219-225, 260-295,
\* 412-438, 443-451) ...
TableFns(c) ==
  IF c = ReadLoop THEN {"processPendingCommands", "cleanupTimedOutCommands"}
  ELSE {"SendCommand", "Disconnect"}
\* ... the input-state cache (379-404 writes it, 314-324 read it) ...
InputFns(c) ==
  IF c = ReadLoop THEN {"handleButtonData"}
  ELSE {"GetButtonStates", "GetButtonMask"}
\* ... and the lock cache (mouse.go 125-130, 167-181, 187-218, 287).
CacheFns(c) ==
  IF c = ReadLoop THEN {}
  ELSE {"setLock", "IsLocked", "GetAllLockStates", "InvalidateCache"}
Outside == [fn |-> "none", res |-> "none", phase |-> "out"]
Free == "free"

\* notifyConnectionChange(connected) as seen by a registered callback
\* (controller.go 79-83); NoCall before the first invocation.
NoCall == "none"
NotifyArg(b) == IF b THEN "true" ELSE "false"
NoPrev == [name |-> "none", arg |-> "-", err |-> "nil"]
\* A bool result as text.
BoolValue(b) == IF b THEN <<"true">> ELSE <<"false">>
\* The goroutine calling the controller runs SendCommand in this frame.
Frame == "s1"

\* Byte values the demultiplexer distinguishes (listen, lines 497-565).
TAB == 9
LF == 10
CR == 13
SP == 32
\* The bytes of the response marker ">>> " and a letter.
GT == 62
LetterA == 65
\* Printable bytes and control bytes the device sends in the model.
TextBytes == {SP, TAB, GT, LetterA}
ControlBytes == {0, 1, LF, CR}
RxBytes == TextBytes \cup ControlBytes
\* State bytes the device sends while buttons are pressed and released
\* (control bytes, so bits 0..4).
InputBytes == {0, 1, 2, 16, 19, 31}
\* State bytes of the left and the right button.
MaskBytes == {0, 1, 2}

\* lastByte before the first byte of the stream.
NoByte == -1
\* A read loop that is not inside handleButtonData.
NoApply == [byteVal |-> -1, mask |-> -1]
\* What the loop body hands on: a text line to processPendingCommands, a
\* state byte to handleButtonData.
TextLine(c) == [kind |-> "TextLine", text |-> c, byte |-> NoByte]
StateTelegram(b) == [kind |-> "StateTelegram", text |-> <<>>, byte |-> b]

NoID == -1
NoErr == "nil"
ErrConnection == "ErrConnection"
ErrTimeout == "ErrTimeout"
ErrCommand == "ErrCommand"
ErrResponse == "response error"
ErrWrite == "write error"
ErrList == "failed to list COM ports"
ErrTarget == "invalid lock target"
\* Nothing written; a written command is its text and its "#id" tag (NoID: none).
NoWrite == [text |-> NoLine, tag |-> NoID]

VARIABLES
  isConnected,       \* SerialTransport.isConnected
  serialPort,        \* SerialTransport.serialPort: "nil", "open" or "closed"
  reconnectAttempts, \* SerialTransport.reconnectAttempts
  commandCounter,    \* SerialTransport.commandCounter
  pendingCommands,   \* SerialTransport.pendingCommands: id -> PendingCommand
  stopChan,          \* SerialTransport.stopChan: the channel's generation
  stopClosed,        \* generations of stopChan that have been closed
  autoReconnect,     \* SerialTransport.autoReconnect
  connected,         \* MakcuController.connected
  now,               \* time.Now(), as the rank of the instant
  staleBefore,       \* instants before this one lie more than 1 s in the past
  pc,                \* per sender: position inside SendCommand
  command,           \* per sender: the command argument
  expect,            \* per sender: the expectResponse argument
  cmdID,             \* per sender: the local cmdID
  stopCh,            \* per sender: the local stopCh
  resultCh,          \* per sender: the content of its resultCh (capacity 1)
  ret,               \* per sender: the returned (value, error)
  written,           \* per sender: what the call wrote to the channel
  cpc,               \* position of the thread inside Connect / Disconnect
  lpc,               \* per listener: position inside listen
  cleanupDue,        \* per listener: time.Since(lastCleanup) > cleanupInterval
  content,           \* per listener: the text line being routed (local content)
  opc,               \* position of the caller inside a controller operation
  op,                \* the controller operation being called and its argument
  opret,             \* the (value, error) the controller operation returned
  lockStatesCache,   \* Mouse.lockStatesCache: the targets whose bit is set
  cacheValid,        \* Mouse.cacheValid
  opCount,           \* number of operations the caller has completed
  prevOp,            \* the operation the caller completed before this one
  sends,             \* SendCommand calls made by the operation so far
  callbackArg,       \* argument of the last call of the connection callbacks
  connectRet,        \* what the last Connect call returned
  lineBuffer,        \* listen: lineBuffer[:linePos]
  expectingTextMode, \* listen: expectingTextMode
  lastByte,          \* listen: lastByte
  lastButtonMask,    \* SerialTransport.lastButtonMask
  buttonStates,      \* SerialTransport.buttonStates
  emitted,           \* what the loop body handed on for the latest byte
  buttonCallback,    \* SerialTransport.buttonCallback is not nil
  buttonCalls,       \* the calls of buttonCallback made for the latest byte
  apply,             \* per read loop: the handleButtonData call it is inside
  commandLock,       \* SerialTransport.commandLock: its holder, or "free"
  at                 \* per execution context: the access it is inside

tvars == <<isConnected, serialPort, reconnectAttempts, commandCounter,
           pendingCommands, stopChan, stopClosed, autoReconnect, connected>>
timevars == <<now, staleBefore>>
svars == <<pc, command, expect, cmdID, stopCh, resultCh, ret, written>>
lvars == <<lpc, cleanupDue, content>>
\* The caller's and the Mouse's part of it, without the callbacks.
avars == <<opc, op, opret, lockStatesCache, cacheValid, opCount, prevOp, sends>>
fvars == <<avars, callbackArg, connectRet>>
dvars == <<lineBuffer, expectingTextMode, lastByte, lastButtonMask, buttonStates, emitted,
           buttonCallback, buttonCalls, apply>>
xvars == <<commandLock, at>>
vars == <<tvars, timevars, svars, cpc, lvars, fvars, dvars, xvars>>

\* ------------------------------------------------------------------ helpers
\* pendingCommands[cmdID] = &PendingCommand{...}
Put(p, id, rec) == [i \in DOMAIN p \cup {id} |-> IF i = id THEN rec ELSE p[i]]

\* delete(s.pendingCommands, id)
Remove(p, id) == [i \in DOMAIN p \ {id} |-> p[i]]

\* generateCommandID: (s.commandCounter + 1) % 10000
generateCommandID(c) == (c + 1) % IdModulus

\* processPendingCommands, lines 419-425: the lowest id in the table.
LowestID(p) == CHOOSE id \in DOMAIN p : \A j \in DOMAIN p : id <= j

\* strings.Index(result, "#"): the first position holding '#', 0 when absent.
IndexHash(line) ==
  IF \E i \in 1..Len(line) : line[i] = "#"
  THEN CHOOSE i \in 1..Len(line) :
         line[i] = "#" /\ \A j \in 1..(i - 1) : line[j] # "#"
  ELSE 0

\* SendCommand, lines 282-284: result[:idx] when the line holds a '#'.
StripID(line) ==
  IF IndexHash(line) > 0 THEN SubSeq(line, 1, IndexHash(line) - 1) ELSE line

\* cleanupTimedOutCommands: now.Sub(pending.Timestamp) > time.Second
IsStale(rec) == rec.Timestamp < staleBefore

\* A nil-interface call panics and ends the program.
Crashed ==
  \/ \E s \in Senders : pc[s] = "panic"
  \/ \E l \in Listeners : lpc[l] = "panic"

\* -------------------------------------------------------------------- Init
\* NewController / NewSerialTransport / NewMouse.
InitTransport ==
  /\ isConnected = FALSE
  /\ serialPort = "nil"
  /\ reconnectAttempts = 0
  /\ pendingCommands = [i \in {} |-> 0]
  /\ stopChan = 0
  /\ stopClosed = {}
  /\ connected = FALSE
  /\ now = 0
  /\ staleBefore = 0
  /\ pc = [s \in Senders |-> "idle"]
  /\ command = [s \in Senders |-> CmdA]
  /\ expect = [s \in Senders |-> FALSE]
  /\ cmdID = [s \in Senders |-> NoID]
  /\ stopCh = [s \in Senders |-> 0]
  /\ resultCh = [s \in Senders |-> NoLine]
  /\ ret = [s \in Senders |-> [value |-> NoLine, err |-> NoErr]]
  /\ written = [s \in Senders |-> NoWrite]
  /\ cpc = "idle"
  /\ lpc = [l \in Listeners |-> "none"]
  /\ cleanupDue = [l \in Listeners |-> FALSE]
  /\ content = [l \in Listeners |-> NoLine]
  /\ opc = "idle"
  /\ op = NoOp
  /\ opret = [value |-> NoLine, err |-> NoErr]
  /\ lockStatesCache = {}
  /\ cacheValid = FALSE
  /\ opCount = 0
  /\ prevOp = NoPrev
  /\ callbackArg = NoCall
  /\ connectRet = NoErr
  /\ sends = 0
  /\ lineBuffer = <<>>
  /\ expectingTextMode = FALSE
  /\ lastByte = NoByte
  /\ lastButtonMask = 0
  /\ buttonStates = 0
  /\ emitted = <<>>
  /\ buttonCallback = FALSE
  /\ buttonCalls = <<>>
  /\ apply = [l \in Listeners |-> NoApply]
  /\ commandLock = Free
  /\ at = [c \in Contexts |-> Outside]

\* ------------------------------------------------------------ SendCommand
\* A caller enters Transport.SendCommand(command, expectResponse, timeout).
StartSend(s, c, e) ==
  /\ ~Crashed
  /\ pc[s] = "idle"
  /\ pc' = [pc EXCEPT ![s] = "check"]
  /\ command' = [command EXCEPT ![s] = c]
  /\ expect' = [expect EXCEPT ![s] = e]
  /\ UNCHANGED <<tvars, timevars, cmdID, stopCh, resultCh, ret, written, cpc, lvars>>
  /\ UNCHANGED <<fvars, dvars, xvars>>

\* The caller is between its entry into SendCommand and its select.
Submitting(s) ==
  pc[s] \in {"check", "genid", "genstore", "register", "write", "select"}

\* Commands are submitted one at a time: a call starts when every earlier
\* call has returned or is waiting for its response.
StartSendInTurn(s, c, e) ==
  /\ \A t \in Senders \ {s} : ~Submitting(t)
  /\ StartSend(s, c, e)

\* A SendCommand that does not test the connection state before sending.
SendCheck_NoGuard(s) ==
  /\ ~Crashed
  /\ pc[s] = "check"
  /\ pc' = [pc EXCEPT ![s] = IF expect[s] THEN "genid" ELSE "write"]
  /\ UNCHANGED ret
  /\ UNCHANGED <<tvars, timevars, command, expect, cmdID, stopCh, resultCh, written, cpc, lvars>>
  /\ UNCHANGED <<fvars, dvars, xvars>>

\* Lines 240-242 and the branch on expectResponse at 248.
SendCheck(s) ==
  /\ ~Crashed
  /\ pc[s] = "check"
  /\ IF ~isConnected \/ serialPort = "nil"
     THEN /\ pc' = [pc EXCEPT ![s] = "done"]
          /\ ret' = [ret EXCEPT ![s] = [value |-> NoLine, err |-> ErrConnection]]
     ELSE /\ pc' = [pc EXCEPT ![s] = IF expect[s] THEN "genid" ELSE "write"]
          /\ UNCHANGED ret
  /\ UNCHANGED <<tvars, timevars, command, expect, cmdID, stopCh, resultCh, written, cpc, lvars>>
  /\ UNCHANGED <<fvars, dvars, xvars>>

\* generateCommandID, the read of s.commandCounter (no lock is held: line 257).
SendGenRead(s) ==
  /\ ~Crashed
  /\ pc[s] = "genid"
  /\ cmdID' = [cmdID EXCEPT ![s] = generateCommandID(commandCounter)]
  /\ pc' = [pc EXCEPT ![s] = "genstore"]
  /\ UNCHANGED <<tvars, timevars, command, expect, stopCh, resultCh, ret, written, cpc, lvars>>
  /\ UNCHANGED <<fvars, dvars, xvars>>

\* generateCommandID, the store to s.commandCounter and the return.
SendGenStore(s) ==
  /\ ~Crashed
  /\ pc[s] = "genstore"
  /\ commandCounter' = cmdID[s]
  /\ pc' = [pc EXCEPT ![s] = "register"]
  /\ UNCHANGED <<isConnected, serialPort, reconnectAttempts, pendingCommands,
                 stopChan, stopClosed, autoReconnect, connected>>
  /\ UNCHANGED <<timevars, command, expect, cmdID, stopCh, resultCh, ret, written, cpc, lvars>>
  /\ UNCHANGED <<fvars, dvars, xvars>>

\* Lines 258-267: the entry is registered under commandLock.
SendRegister(s) ==
  /\ ~Crashed
  /\ pc[s] = "register"
  /\ pendingCommands' = Put(pendingCommands, cmdID[s],
                            [CommandID |-> cmdID[s], Command |-> command[s],
                             ResultCh |-> s, Timestamp |-> now])
  /\ now' = now + 1
  /\ pc' = [pc EXCEPT ![s] = "write"]
  /\ UNCHANGED <<isConnected, serialPort, reconnectAttempts, commandCounter,
                 stopChan, stopClosed, autoReconnect, connected>>
  /\ UNCHANGED <<staleBefore, command, expect, cmdID, stopCh, resultCh, ret, written, cpc, lvars>>
  /\ UNCHANGED <<fvars, dvars, xvars>>

\* The outcomes of serialPort.Write on the channel the field refers to.
WriteOutcomes(port) ==
  IF port = "nil" THEN {"panic"}
  ELSE IF port = "closed" THEN {"err"}
  ELSE {"ok", "err"}

\* A fire-and-forget write that registers its command like a tagged one.
SendWriteFF_Registers(s) ==
  /\ ~Crashed
  /\ pc[s] = "write"
  /\ ~expect[s]
  /\ \E o \in WriteOutcomes(serialPort) :
       /\ pc' = [pc EXCEPT ![s] = IF o = "panic" THEN "panic" ELSE "done"]
       /\ ret' = [ret EXCEPT ![s] =
                    IF o = "ok" THEN [value |-> command[s], err |-> NoErr]
                    ELSE IF o = "err" THEN [value |-> NoLine, err |-> ErrWrite]
                    ELSE @]
       /\ written' = [written EXCEPT ![s] =
                        IF o = "ok" THEN [text |-> command[s], tag |-> NoID] ELSE @]
  /\ pendingCommands' = Put(pendingCommands, generateCommandID(commandCounter),
                            [CommandID |-> generateCommandID(commandCounter),
                             Command |-> command[s], ResultCh |-> s, Timestamp |-> now])
  /\ UNCHANGED <<isConnected, serialPort, reconnectAttempts, commandCounter,
                 stopChan, stopClosed, autoReconnect, connected>>
  /\ UNCHANGED <<timevars, command, expect, cmdID, stopCh, resultCh, cpc, lvars>>
  /\ UNCHANGED <<fvars, dvars, xvars>>

\* Lines 249-255: the fire-and-forget write.
SendWriteFF(s) ==
  /\ ~Crashed
  /\ pc[s] = "write"
  /\ ~expect[s]
  /\ \E o \in WriteOutcomes(serialPort) :
       /\ pc' = [pc EXCEPT ![s] = IF o = "panic" THEN "panic" ELSE "done"]
       /\ ret' = [ret EXCEPT ![s] =
                    IF o = "ok" THEN [value |-> command[s], err |-> NoErr]
                    ELSE IF o = "err" THEN [value |-> NoLine, err |-> ErrWrite]
                    ELSE @]
       /\ written' = [written EXCEPT ![s] =
                        IF o = "ok" THEN [text |-> command[s], tag |-> NoID] ELSE @]
  /\ UNCHANGED <<tvars, timevars, command, expect, cmdID, stopCh, resultCh, cpc, lvars>>
  /\ UNCHANGED <<fvars, dvars, xvars>>

\* Lines 269-276: the tagged write; a failed write removes the entry.
SendWrite(s) ==
  /\ ~Crashed
  /\ pc[s] = "write"
  /\ expect[s]
  /\ \E o \in WriteOutcomes(serialPort) :
       /\ pc' = [pc EXCEPT ![s] = IF o = "panic" THEN "panic"
                                  ELSE IF o = "err" THEN "done" ELSE "select"]
       /\ ret' = [ret EXCEPT ![s] =
                    IF o = "err" THEN [value |-> NoLine, err |-> ErrWrite] ELSE @]
       /\ written' = [written EXCEPT ![s] =
                        IF o = "ok" THEN [text |-> command[s], tag |-> cmdID[s]] ELSE @]
       /\ pendingCommands' = IF o = "err" THEN Remove(pendingCommands, cmdID[s])
                             ELSE pendingCommands
       /\ cmdID' = [cmdID EXCEPT ![s] = IF o = "err" THEN NoID ELSE @]
  /\ UNCHANGED <<isConnected, serialPort, reconnectAttempts, commandCounter,
                 stopChan, stopClosed, autoReconnect, connected>>
  /\ UNCHANGED <<timevars, command, expect, stopCh, resultCh, cpc, lvars>>
  /\ UNCHANGED <<fvars, dvars, xvars>>

\* The cases of the select at line 280 that are ready when it is first polled.
ReadyCases(s) ==
  (IF resultCh[s] # NoLine THEN {"woke_result"} ELSE {}) \cup
  (IF stopChan \in stopClosed THEN {"woke_stop"} ELSE {})

\* Lines 278-280: stopCh := s.stopChan, then the select takes a ready case
\* (any of them when several are ready) or parks the goroutine.
SendSelect(s) ==
  /\ ~Crashed
  /\ pc[s] = "select"
  /\ stopCh' = [stopCh EXCEPT ![s] = stopChan]
  /\ IF ReadyCases(s) = {}
     THEN pc' = [pc EXCEPT ![s] = "parked"]
     ELSE \E w \in ReadyCases(s) : pc' = [pc EXCEPT ![s] = w]
  /\ UNCHANGED <<tvars, timevars, command, expect, cmdID, resultCh, ret, written, cpc, lvars>>
  /\ UNCHANGED <<fvars, dvars, xvars>>

\* Line 292: time.After(timeout) fires while the goroutine is parked.
SendTimerFires(s) ==
  /\ ~Crashed
  /\ pc[s] = "parked"
  /\ pc' = [pc EXCEPT ![s] = "woke_timeout"]
  /\ UNCHANGED <<tvars, timevars, command, expect, cmdID, stopCh, resultCh, ret, written, cpc, lvars>>
  /\ UNCHANGED <<fvars, dvars, xvars>>

\* Lines 281-286: the result case.
SendReturnResult(s) ==
  /\ ~Crashed
  /\ pc[s] = "woke_result"
  /\ ret' = [ret EXCEPT ![s] = [value |-> StripID(resultCh[s]), err |-> NoErr]]
  /\ resultCh' = [resultCh EXCEPT ![s] = NoLine]
  /\ pc' = [pc EXCEPT ![s] = "done"]
  /\ cmdID' = [cmdID EXCEPT ![s] = NoID]
  /\ stopCh' = [stopCh EXCEPT ![s] = 0]
  /\ UNCHANGED <<tvars, timevars, command, expect, written, cpc, lvars>>
  /\ UNCHANGED <<fvars, dvars, xvars>>

\* Returning on the stop signal or the timeout without deleting the entry.
SendReturnError_NoDelete(s) ==
  /\ ~Crashed
  /\ pc[s] \in {"woke_stop", "woke_timeout"}
  /\ ret' = [ret EXCEPT ![s] =
               [value |-> NoLine,
                err |-> IF pc[s] = "woke_stop" THEN ErrConnection ELSE ErrTimeout]]
  /\ pc' = [pc EXCEPT ![s] = "done"]
  /\ cmdID' = [cmdID EXCEPT ![s] = NoID]
  /\ stopCh' = [stopCh EXCEPT ![s] = 0]
  /\ UNCHANGED <<tvars, timevars, command, expect, resultCh, written, cpc, lvars>>
  /\ UNCHANGED <<fvars, dvars, xvars>>

\* Lines 287-291 (stop signal) and 292-296 (timeout): delete the entry, fail.
SendReturnError(s) ==
  /\ ~Crashed
  /\ pc[s] \in {"woke_stop", "woke_timeout"}
  /\ pendingCommands' = Remove(pendingCommands, cmdID[s])
  /\ ret' = [ret EXCEPT ![s] =
               [value |-> NoLine,
                err |-> IF pc[s] = "woke_stop" THEN ErrConnection ELSE ErrTimeout]]
  /\ pc' = [pc EXCEPT ![s] = "done"]
  /\ cmdID' = [cmdID EXCEPT ![s] = NoID]
  /\ stopCh' = [stopCh EXCEPT ![s] = 0]
  /\ UNCHANGED <<isConnected, serialPort, reconnectAttempts, commandCounter,
                 stopChan, stopClosed, autoReconnect, connected>>
  /\ UNCHANGED <<timevars, command, expect, resultCh, written, cpc, lvars>>
  /\ UNCHANGED <<fvars, dvars, xvars>>

\* ------------------------------------------------------------- read loop
\* fmt.Sprintf("%d", id) for an id of 0..9999, as in the tag of line 268.
DigitText == <<"0", "1", "2", "3", "4", "5", "6", "7", "8", "9">>
RECURSIVE IdText(_)
IdText(id) ==
  IF id < 10 THEN <<DigitText[id + 1]>>
  ELSE IdText(id \div 10) \o <<DigitText[(id % 10) + 1]>>

\* The text after the '#' of a line, empty when it has none.
TagText(line) ==
  IF IndexHash(line) > 0 THEN SubSeq(line, IndexHash(line) + 1, Len(line)) ELSE <<>>

\* A variant of processPendingCommands that routes a tagged line to the
\* pending command whose id the tag names, and drops it when there is none.
processPendingCommands_MatchesTag(line) ==
  IF line = NoLine \/ DOMAIN pendingCommands = {}
  THEN UNCHANGED <<pendingCommands, resultCh, pc>>
  ELSE LET named == {id \in DOMAIN pendingCommands : IdText(id) = TagText(line)}
       IN IF named = {}
          THEN UNCHANGED <<pendingCommands, resultCh, pc>>
          ELSE LET id == CHOOSE i \in named : TRUE
                   owner == pendingCommands[id].ResultCh
               IN /\ resultCh' = [resultCh EXCEPT ![owner] = line]
                  /\ pc' = IF pc[owner] = "parked"
                           THEN [pc EXCEPT ![owner] = "woke_result"]
                           ELSE pc
                  /\ pendingCommands' = Remove(pendingCommands, id)

\* A variant of processPendingCommands that delivers the line but leaves
\* the entry in the table.
processPendingCommands_KeepsEntry(line) ==
  IF line = NoLine \/ DOMAIN pendingCommands = {}
  THEN UNCHANGED <<pendingCommands, resultCh, pc>>
  ELSE LET oldestID == LowestID(pendingCommands)
           pending == pendingCommands[oldestID]
           owner == pending.ResultCh
       IN IF line = pending.Command
          THEN UNCHANGED <<pendingCommands, resultCh, pc>>
          ELSE /\ resultCh' = IF resultCh[owner] = NoLine
                              THEN [resultCh EXCEPT ![owner] = line]
                              ELSE resultCh
               /\ pc' = IF resultCh[owner] = NoLine /\ pc[owner] = "parked"
                        THEN [pc EXCEPT ![owner] = "woke_result"]
                        ELSE pc
               /\ UNCHANGED pendingCommands

\* processPendingCommands(line): route a text line to the lowest pending
\* id; an echo of that command is skipped; the send on ResultCh is
\* non-blocking and wakes the caller when it is parked in its select.
processPendingCommands(line) ==
  IF line = NoLine \/ DOMAIN pendingCommands = {}
  THEN UNCHANGED <<pendingCommands, resultCh, pc>>
  ELSE LET oldestID == LowestID(pendingCommands)
           pending == pendingCommands[oldestID]
           owner == pending.ResultCh
       IN IF line = pending.Command
          THEN UNCHANGED <<pendingCommands, resultCh, pc>>
          ELSE /\ resultCh' = IF resultCh[owner] = NoLine
                              THEN [resultCh EXCEPT ![owner] = line]
                              ELSE resultCh
               /\ pc' = IF resultCh[owner] = NoLine /\ pc[owner] = "parked"
                        THEN [pc EXCEPT ![owner] = "woke_result"]
                        ELSE pc
               /\ pendingCommands' = Remove(pendingCommands, oldestID)

\* cleanupTimedOutCommands: drop every entry older than one second.
cleanupTimedOutCommands(p) ==
  [i \in {j \in DOMAIN p : ~IsStale(p[j])} |-> p[i]]

\* Lines 470-476: the loop condition and the stop-signal poll.
ListenTop(l) ==
  /\ ~Crashed
  /\ lpc[l] = "top"
  /\ IF ~isConnected \/ stopChan \in stopClosed
     THEN /\ lpc' = [lpc EXCEPT ![l] = "exited"]
          /\ cleanupDue' = [cleanupDue EXCEPT ![l] = FALSE]
     ELSE /\ lpc' = [lpc EXCEPT ![l] = "read"]
          /\ UNCHANGED cleanupDue
  /\ UNCHANGED <<tvars, timevars, svars, cpc, content>>
  /\ UNCHANGED <<fvars, dvars, xvars>>

\* Lines 478 and 490-492: the read returns no byte within the read timeout.
ListenReadNothing(l) ==
  /\ ~Crashed
  /\ lpc[l] = "read"
  /\ serialPort = "open"
  /\ lpc' = [lpc EXCEPT ![l] = "top"]
  /\ UNCHANGED <<tvars, timevars, svars, cpc, cleanupDue, content>>
  /\ UNCHANGED <<fvars, dvars, xvars>>

\* Lines 478 and 494-575: the read returns bytes that complete a text line.
ListenReadLine(l, line) ==
  /\ ~Crashed
  /\ lpc[l] = "read"
  /\ serialPort = "open"
  /\ processPendingCommands(line)
  /\ content' = [content EXCEPT ![l] = line]
  /\ lpc' = [lpc EXCEPT ![l] = "cleanup"]
  /\ UNCHANGED <<isConnected, serialPort, reconnectAttempts, commandCounter,
                 stopChan, stopClosed, autoReconnect, connected>>
  /\ UNCHANGED <<timevars, command, expect, cmdID, stopCh, ret, written, cpc, cleanupDue>>
  /\ UNCHANGED <<fvars, dvars, xvars>>

\* ----------------------------------------------------------- demultiplexer
\* unicode.IsSpace on the bytes a line can hold.
IsSpace(b) == b \in {SP, TAB, LF, 11, 12, CR}

RECURSIVE TrimLeft(_)
TrimLeft(t) == IF t # <<>> /\ IsSpace(Head(t)) THEN TrimLeft(Tail(t)) ELSE t

RECURSIVE TrimRight(_)
TrimRight(t) ==
  IF t # <<>> /\ IsSpace(t[Len(t)]) THEN TrimRight(SubSeq(t, 1, Len(t) - 1)) ELSE t

\* strings.TrimSpace
TrimSpace(t) == TrimRight(TrimLeft(t))

\* strings.HasPrefix
HasPrefix(t, p) == Len(t) >= Len(p) /\ SubSeq(t, 1, Len(p)) = p

\* The response marker ">>> ".
Marker == <<GT, GT, GT, SP>>

\* A parseResponseLine that strips the marker but trims nothing.
parseResponseLine_NoTrim(line) ==
  IF HasPrefix(line, Marker) THEN SubSeq(line, 5, Len(line)) ELSE line

\* parseResponseLine, lines 370-376.
parseResponseLine(line) ==
  LET str == TrimSpace(line)
  IN IF HasPrefix(str, Marker) THEN TrimSpace(SubSeq(str, 5, Len(str))) ELSE str

\* Bit i of v.
Bit(v, i) == (v \div (2 ^ i)) % 2

RECURSIVE MergeBits(_, _, _, _)
\* handleButtonData, lines 387-399: bits i..7 of buttonStates after the loop
\* (a changed bit takes byteVal's value, the others keep theirs).
MergeBits(states, mask, byteVal, i) ==
  IF i > 7 THEN 0
  ELSE (2 ^ i) * (IF Bit(byteVal, i) # Bit(mask, i) THEN Bit(byteVal, i) ELSE Bit(states, i))
       + MergeBits(states, mask, byteVal, i + 1)

\* A handleButtonData that updates buttonStates but not lastButtonMask.
handleButtonData_KeepsMask(m, byteVal) ==
  IF byteVal = m.mask THEN m
  ELSE [mask |-> m.mask, states |-> MergeBits(m.states, m.mask, byteVal, 0)]

\* handleButtonData, lines 379-404, on the pair (lastButtonMask, buttonStates).
handleButtonData(m, byteVal) ==
  IF byteVal = m.mask THEN m
  ELSE [mask |-> byteVal, states |-> MergeBits(m.states, m.mask, byteVal, 0)]

\* buttonEnumMap (line 20): the button of each of the bits 0..4.
buttonEnumMap == <<"left", "right", "middle", "mouse4", "mouse5">>

\* A variant of the loop that calls the callback for every known bit,
\* changed or not.
ButtonCalls_EveryBit(mask, byteVal, bit) ==
  [i \in 1..Len(buttonEnumMap) |->
     [button |-> buttonEnumMap[i], pressed |-> Bit(byteVal, i - 1) = 1]]

RECURSIVE ButtonCalls(_, _, _)
\* handleButtonData, lines 387-401: the calls s.buttonCallback(button,
\* isPressed) the loop makes from bit on, in order, when a callback is set.
ButtonCalls(mask, byteVal, bit) ==
  IF bit > 7 THEN <<>>
  ELSE (IF Bit(byteVal, bit) # Bit(mask, bit) /\ bit < Len(buttonEnumMap)
        THEN <<[button |-> buttonEnumMap[bit + 1], pressed |-> Bit(byteVal, bit) = 1]>>
        ELSE <<>>)
       \o ButtonCalls(mask, byteVal, bit + 1)

\* A completed line (lines 499-505, 536-542, 546-551): routed when the parsed
\* content is not empty.
LineEvents(buf) ==
  IF parseResponseLine(buf) # <<>> THEN <<TextLine(parseResponseLine(buf))>> ELSE <<>>

\* A control byte that reports the pending CR whatever the previous byte was.
ControlEvents_AlwaysCR(b) == <<StateTelegram(CR), StateTelegram(b)>>

\* A variant that reports the pending CR after the control byte.
ControlEvents_CRLast(b) ==
  <<StateTelegram(b)>> \o (IF lastByte = CR THEN <<StateTelegram(CR)>> ELSE <<>>)

\* Case 5, lines 566-569: a CR left pending is handed on as a state byte
\* before the control byte itself.
ControlEvents(b) ==
  (IF lastByte = CR THEN <<StateTelegram(CR)>> ELSE <<>>) \o <<StateTelegram(b)>>

\* A variant of the switch that keeps appending when the buffer is full.
DemuxStep_NoCap(b) ==
  IF lastByte = CR /\ b = LF
  THEN [buf |-> <<>>, expecting |-> FALSE,
        events |-> IF Len(lineBuffer) > 0 THEN LineEvents(lineBuffer) ELSE <<>>]
  ELSE IF b >= 32 \/ b = TAB
  THEN [buf |-> Append(lineBuffer, b), expecting |-> TRUE, events |-> <<>>]
  ELSE IF b = CR
  THEN [buf |-> lineBuffer,
        expecting |-> IF expectingTextMode \/ Len(lineBuffer) > 0
                      THEN TRUE ELSE expectingTextMode,
        events |-> <<>>]
  ELSE IF b = LF
  THEN IF \/ lastButtonMask # 0
          \/ (lastByte >= 0 /\ lastByte < 32 /\ lastByte # CR)
          \/ (Len(lineBuffer) > 0 /\ ~expectingTextMode)
       THEN [buf |-> <<>>, expecting |-> FALSE, events |-> <<StateTelegram(b)>>]
       ELSE IF Len(lineBuffer) > 0 /\ expectingTextMode
       THEN [buf |-> <<>>, expecting |-> FALSE, events |-> LineEvents(lineBuffer)]
       ELSE IF expectingTextMode
       THEN [buf |-> lineBuffer, expecting |-> FALSE, events |-> <<>>]
       ELSE [buf |-> <<>>, expecting |-> FALSE, events |-> <<StateTelegram(b)>>]
  ELSE [buf |-> <<>>, expecting |-> FALSE, events |-> ControlEvents(b)]

\* A variant of the switch in which a bare LF ends the buffered text line
\* whatever the input mask and the previous byte are.
DemuxStep_LFEndsLine(b) ==
  IF lastByte = CR /\ b = LF
  THEN [buf |-> <<>>, expecting |-> FALSE,
        events |-> IF Len(lineBuffer) > 0 THEN LineEvents(lineBuffer) ELSE <<>>]
  ELSE IF b >= 32 \/ b = TAB
  THEN [buf |-> IF Len(lineBuffer) < LineCap THEN Append(lineBuffer, b) ELSE lineBuffer,
        expecting |-> TRUE, events |-> <<>>]
  ELSE IF b = CR
  THEN [buf |-> lineBuffer,
        expecting |-> IF expectingTextMode \/ Len(lineBuffer) > 0
                      THEN TRUE ELSE expectingTextMode,
        events |-> <<>>]
  ELSE IF b = LF
  THEN IF Len(lineBuffer) > 0 /\ expectingTextMode
       THEN [buf |-> <<>>, expecting |-> FALSE, events |-> LineEvents(lineBuffer)]
       ELSE IF expectingTextMode
       THEN [buf |-> lineBuffer, expecting |-> FALSE, events |-> <<>>]
       ELSE [buf |-> <<>>, expecting |-> FALSE, events |-> <<StateTelegram(b)>>]
  ELSE [buf |-> <<>>, expecting |-> FALSE, events |-> ControlEvents(b)]

\* A variant of the switch whose text case appends without setting
\* expectingTextMode.
DemuxStep_TextKeepsFlag(b) ==
  IF lastByte = CR /\ b = LF
  THEN [buf |-> <<>>, expecting |-> FALSE,
        events |-> IF Len(lineBuffer) > 0 THEN LineEvents(lineBuffer) ELSE <<>>]
  ELSE IF b >= 32 \/ b = TAB
  THEN [buf |-> IF Len(lineBuffer) < LineCap THEN Append(lineBuffer, b) ELSE lineBuffer,
        expecting |-> expectingTextMode, events |-> <<>>]
  ELSE IF b = CR
  THEN [buf |-> lineBuffer,
        expecting |-> IF expectingTextMode \/ Len(lineBuffer) > 0
                      THEN TRUE ELSE expectingTextMode,
        events |-> <<>>]
  ELSE IF b = LF
  THEN IF \/ lastButtonMask # 0
          \/ (lastByte >= 0 /\ lastByte < 32 /\ lastByte # CR)
          \/ (Len(lineBuffer) > 0 /\ ~expectingTextMode)
       THEN [buf |-> <<>>, expecting |-> FALSE, events |-> <<StateTelegram(b)>>]
       ELSE IF lastByte = CR
       THEN [buf |-> <<>>, expecting |-> FALSE,
             events |-> IF Len(lineBuffer) > 0 THEN LineEvents(lineBuffer) ELSE <<>>]
       ELSE IF Len(lineBuffer) > 0 /\ expectingTextMode
       THEN [buf |-> <<>>, expecting |-> FALSE, events |-> LineEvents(lineBuffer)]
       ELSE IF expectingTextMode
       THEN [buf |-> lineBuffer, expecting |-> FALSE, events |-> <<>>]
       ELSE [buf |-> <<>>, expecting |-> FALSE, events |-> <<StateTelegram(b)>>]
  ELSE [buf |-> <<>>, expecting |-> FALSE, events |-> ControlEvents(b)]

\* The switch of the loop body, lines 497-574, for byte b: the buffer and the
\* flag it leaves, and what it hands on, in order.
DemuxStep(b) ==
  IF lastByte = CR /\ b = LF
  THEN [buf |-> <<>>, expecting |-> FALSE,
        events |-> IF Len(lineBuffer) > 0 THEN LineEvents(lineBuffer) ELSE <<>>]
  ELSE IF b >= 32 \/ b = TAB
  THEN [buf |-> IF Len(lineBuffer) < LineCap THEN Append(lineBuffer, b) ELSE lineBuffer,
        expecting |-> TRUE, events |-> <<>>]
  ELSE IF b = CR
  THEN [buf |-> lineBuffer,
        expecting |-> IF expectingTextMode \/ Len(lineBuffer) > 0
                      THEN TRUE ELSE expectingTextMode,
        events |-> <<>>]
  ELSE IF b = LF
  THEN IF \/ lastButtonMask # 0
          \/ (lastByte >= 0 /\ lastByte < 32 /\ lastByte # CR)
          \/ (Len(lineBuffer) > 0 /\ ~expectingTextMode)
       THEN [buf |-> <<>>, expecting |-> FALSE, events |-> <<StateTelegram(b)>>]
       ELSE IF lastByte = CR
       THEN [buf |-> <<>>, expecting |-> FALSE,
             events |-> IF Len(lineBuffer) > 0 THEN LineEvents(lineBuffer) ELSE <<>>]
       ELSE IF Len(lineBuffer) > 0 /\ expectingTextMode
       THEN [buf |-> <<>>, expecting |-> FALSE, events |-> LineEvents(lineBuffer)]
       ELSE IF expectingTextMode
       THEN [buf |-> lineBuffer, expecting |-> FALSE, events |-> <<>>]
       ELSE [buf |-> <<>>, expecting |-> FALSE, events |-> <<StateTelegram(b)>>]
  ELSE [buf |-> <<>>, expecting |-> FALSE, events |-> ControlEvents(b)]

RECURSIVE ApplyTelegrams(_, _)
\* The handleButtonData calls of one byte, in order.
ApplyTelegrams(m, events) ==
  IF events = <<>> THEN m
  ELSE ApplyTelegrams(IF Head(events).kind = "StateTelegram"
                      THEN handleButtonData(m, Head(events).byte) ELSE m,
                      Tail(events))

RECURSIVE TelegramCalls(_, _)
\* The callback calls of the handleButtonData calls of one byte, in order
\* (none when the byte equals the mask, lines 380-382).
TelegramCalls(m, events) ==
  IF events = <<>> THEN <<>>
  ELSE IF Head(events).kind = "StateTelegram"
  THEN (IF Head(events).byte = m.mask THEN <<>>
        ELSE ButtonCalls(m.mask, Head(events).byte, 0))
       \o TelegramCalls(handleButtonData(m, Head(events).byte), Tail(events))
  ELSE TelegramCalls(m, Tail(events))

\* The text line among the events of one byte, NoLine when there is none.
RoutedLine(events) ==
  IF events # <<>> /\ events[1].kind = "TextLine" THEN events[1].text ELSE NoLine

\* Lines 478 and 494-575: one byte of a read that returned bytes goes through
\* the loop body.
ListenByte(l, b) ==
  /\ ~Crashed
  /\ lpc[l] \in {"read", "bytes"}
  /\ serialPort = "open"
  /\ LET r == DemuxStep(b)
         m == ApplyTelegrams([mask |-> lastButtonMask, states |-> buttonStates], r.events)
     IN /\ lineBuffer' = r.buf
        /\ expectingTextMode' = r.expecting
        /\ emitted' = r.events
        /\ lastButtonMask' = m.mask
        /\ buttonStates' = m.states
        /\ buttonCalls' = IF buttonCallback
                          THEN TelegramCalls([mask |-> lastButtonMask,
                                              states |-> buttonStates], r.events)
                          ELSE <<>>
        /\ processPendingCommands(RoutedLine(r.events))
        /\ content' = [content EXCEPT ![l] = RoutedLine(r.events)]
  /\ lastByte' = b
  /\ lpc' = [lpc EXCEPT ![l] = "bytes"]
  /\ UNCHANGED <<isConnected, serialPort, reconnectAttempts, commandCounter,
                 stopChan, stopClosed, autoReconnect, connected>>
  /\ UNCHANGED <<timevars, command, expect, cmdID, stopCh, ret, written, cpc, cleanupDue>>
  /\ UNCHANGED <<buttonCallback, apply, fvars, xvars>>

\* Lines 564-573 and 379-384: read loop l takes the default case for the
\* state byte b (no CR pending) and enters handleButtonData, which reads
\* s.lastButtonMask; it returns at once when b is the mask. Nothing guards
\* the fields, so another read loop can act before l goes on.
ListenStateByte(l, b) ==
  /\ ~Crashed
  /\ lpc[l] \in {"read", "bytes"}
  /\ serialPort = "open"
  /\ b \in 0..31 \ {TAB, CR, LF}
  /\ lastByte # CR
  /\ IF b = lastButtonMask
     THEN /\ lpc' = [lpc EXCEPT ![l] = "bytes"]
          /\ lineBuffer' = <<>>
          /\ expectingTextMode' = FALSE
          /\ emitted' = <<StateTelegram(b)>>
          /\ buttonCalls' = <<>>
          /\ lastByte' = b
          /\ UNCHANGED apply
     ELSE /\ lpc' = [lpc EXCEPT ![l] = "apply"]
          /\ apply' = [apply EXCEPT ![l] = [byteVal |-> b, mask |-> lastButtonMask]]
          /\ UNCHANGED <<lineBuffer, expectingTextMode, emitted, buttonCalls, lastByte>>
  /\ UNCHANGED <<lastButtonMask, buttonStates, buttonCallback>>
  /\ UNCHANGED <<tvars, timevars, svars, cpc, cleanupDue, content>>
  /\ UNCHANGED <<fvars, xvars>>

\* Lines 384-403 and 570-574: the loop over the bits that differed from the
\* mask read on entry, the store of s.lastButtonMask, and the end of the
\* default case.
ListenStateApply(l) ==
  /\ ~Crashed
  /\ lpc[l] = "apply"
  /\ buttonStates' = MergeBits(buttonStates, apply[l].mask, apply[l].byteVal, 0)
  /\ lastButtonMask' = apply[l].byteVal
  /\ buttonCalls' = IF buttonCallback
                    THEN ButtonCalls(apply[l].mask, apply[l].byteVal, 0)
                    ELSE <<>>
  /\ lineBuffer' = <<>>
  /\ expectingTextMode' = FALSE
  /\ emitted' = <<StateTelegram(apply[l].byteVal)>>
  /\ lastByte' = apply[l].byteVal
  /\ apply' = [apply EXCEPT ![l] = NoApply]
  /\ lpc' = [lpc EXCEPT ![l] = "bytes"]
  /\ UNCHANGED buttonCallback
  /\ UNCHANGED <<tvars, timevars, svars, cpc, cleanupDue, content>>
  /\ UNCHANGED <<fvars, xvars>>

\* Line 494: the bytes of the read are used up.
ListenBytesDone(l) ==
  /\ ~Crashed
  /\ lpc[l] = "bytes"
  /\ lpc' = [lpc EXCEPT ![l] = "cleanup"]
  /\ UNCHANGED <<tvars, timevars, svars, cpc, cleanupDue, content>>
  /\ UNCHANGED <<fvars, dvars, xvars>>

\* Lines 577-581: the cleanup at the end of an iteration that received bytes.
ListenCleanup(l) ==
  /\ ~Crashed
  /\ lpc[l] = "cleanup"
  /\ IF cleanupDue[l]
     THEN /\ pendingCommands' = cleanupTimedOutCommands(pendingCommands)
          /\ cleanupDue' = [cleanupDue EXCEPT ![l] = FALSE]
     ELSE UNCHANGED <<pendingCommands, cleanupDue>>
  /\ lpc' = [lpc EXCEPT ![l] = "top"]
  /\ content' = [content EXCEPT ![l] = NoLine]
  /\ UNCHANGED <<isConnected, serialPort, reconnectAttempts, commandCounter,
                 stopChan, stopClosed, autoReconnect, connected>>
  /\ UNCHANGED <<timevars, svars, cpc>>
  /\ UNCHANGED <<fvars, dvars, xvars>>

\* Line 478 on a nil serialPort: a nil-interface call.
ListenReadNil(l) ==
  /\ ~Crashed
  /\ lpc[l] = "read"
  /\ serialPort = "nil"
  /\ lpc' = [lpc EXCEPT ![l] = "panic"]
  /\ UNCHANGED <<tvars, timevars, svars, cpc, cleanupDue, content>>
  /\ UNCHANGED <<fvars, dvars, xvars>>

\* A read-error handler that, on exhaustion, returns without storing
\* isConnected = false (lines 591-595 without the Store).
ListenReadError_KeepsConnected(l) ==
  /\ ~Crashed
  /\ lpc[l] = "read"
  /\ serialPort \in {"open", "closed"}
  /\ IF ~isConnected
     THEN /\ lpc' = [lpc EXCEPT ![l] = "top"]
          /\ UNCHANGED <<isConnected, serialPort, reconnectAttempts>>
     ELSE IF ~autoReconnect
     THEN /\ lpc' = [lpc EXCEPT ![l] = "exited"]
          /\ UNCHANGED <<isConnected, serialPort, reconnectAttempts>>
     ELSE IF reconnectAttempts >= maxReconnectAttempts
     THEN /\ lpc' = [lpc EXCEPT ![l] = "top"]
          /\ UNCHANGED <<isConnected, serialPort, reconnectAttempts>>
     ELSE /\ lpc' = [lpc EXCEPT ![l] = "rinc"]
          /\ UNCHANGED <<isConnected, serialPort, reconnectAttempts>>
  /\ UNCHANGED <<commandCounter, pendingCommands, stopChan, stopClosed,
                 autoReconnect, connected>>
  /\ UNCHANGED <<timevars, svars, cpc, cleanupDue, content>>
  /\ UNCHANGED <<fvars, dvars, xvars>>

\* Lines 479-489 and attemptReconnect 588-595: the read fails (closed
\* channel, or the device is gone); with AutoReconnect the attempt counter
\* is compared with the maximum.
ListenReadError(l) ==
  /\ ~Crashed
  /\ lpc[l] = "read"
  /\ serialPort \in {"open", "closed"}
  /\ IF ~isConnected
     THEN /\ lpc' = [lpc EXCEPT ![l] = "top"]
          /\ UNCHANGED <<isConnected, serialPort, reconnectAttempts>>
     ELSE IF ~autoReconnect
     THEN /\ lpc' = [lpc EXCEPT ![l] = "exited"]
          /\ UNCHANGED <<isConnected, serialPort, reconnectAttempts>>
     ELSE IF reconnectAttempts >= maxReconnectAttempts
     THEN /\ isConnected' = FALSE
          /\ lpc' = [lpc EXCEPT ![l] = "top"]
          /\ UNCHANGED <<serialPort, reconnectAttempts>>
     ELSE /\ lpc' = [lpc EXCEPT ![l] = "rinc"]
          /\ UNCHANGED <<isConnected, serialPort, reconnectAttempts>>
  /\ UNCHANGED <<commandCounter, pendingCommands, stopChan, stopClosed,
                 autoReconnect, connected>>
  /\ UNCHANGED <<timevars, svars, cpc, cleanupDue, content>>
  /\ UNCHANGED <<fvars, dvars, xvars>>

\* attemptReconnect 597-601: s.reconnectAttempts++ and the old channel is
\* closed.  No lock is held: another listen goroutine can have counted its
\* own attempt since this one compared the counter.
ListenAttempt(l) ==
  /\ ~Crashed
  /\ lpc[l] = "rinc"
  /\ reconnectAttempts' = reconnectAttempts + 1
  /\ serialPort' = IF serialPort = "nil" THEN "nil" ELSE "closed"
  /\ lpc' = [lpc EXCEPT ![l] = "rsleep"]
  /\ UNCHANGED <<isConnected, commandCounter, pendingCommands,
                 stopChan, stopClosed, autoReconnect, connected>>
  /\ UNCHANGED <<timevars, svars, cpc, cleanupDue, content>>
  /\ UNCHANGED <<fvars, dvars, xvars>>

\* attemptReconnect 603-628: after the delay, the port is not found or does
\* not open (return), or it opens and is stored in s.serialPort.
ListenReopen(l) ==
  /\ ~Crashed
  /\ lpc[l] = "rsleep"
  /\ \/ /\ lpc' = [lpc EXCEPT ![l] = "top"]
        /\ UNCHANGED serialPort
     \/ /\ serialPort' = "open"
        /\ lpc' = [lpc EXCEPT ![l] = "rbaud"]
  /\ UNCHANGED <<isConnected, reconnectAttempts, commandCounter, pendingCommands,
                 stopChan, stopClosed, autoReconnect, connected>>
  /\ UNCHANGED <<timevars, svars, cpc, cleanupDue, content>>
  /\ UNCHANGED <<fvars, dvars, xvars>>

\* attemptReconnect 630-643: the baud handshake on s.serialPort; on failure
\* s.serialPort.Close(), on success the attempt counter is reset.
ListenBaud(l) ==
  /\ ~Crashed
  /\ lpc[l] = "rbaud"
  /\ \/ /\ serialPort = "nil"
        /\ lpc' = [lpc EXCEPT ![l] = "panic"]
        /\ UNCHANGED <<serialPort, reconnectAttempts>>
     \/ /\ serialPort # "nil"
        /\ serialPort' = "closed"
        /\ lpc' = [lpc EXCEPT ![l] = "top"]
        /\ UNCHANGED reconnectAttempts
     \/ /\ serialPort = "open"
        /\ reconnectAttempts' = 0
        /\ lpc' = [lpc EXCEPT ![l] = "top"]
        /\ UNCHANGED serialPort
  /\ UNCHANGED <<isConnected, commandCounter, pendingCommands,
                 stopChan, stopClosed, autoReconnect, connected>>
  /\ UNCHANGED <<timevars, svars, cpc, cleanupDue, content>>
  /\ UNCHANGED <<fvars, dvars, xvars>>

\* ------------------------------------------------- Connect and Disconnect
\* A variant of Connect that starts the read loop as soon as the port is
\* open, before the handshake.
CtlConnect_StartsLoop(limit) ==
  /\ ~Crashed
  /\ cpc = "idle"
  /\ stopChan < limit
  /\ ~isConnected
  /\ serialPort' = "open"
  /\ cpc' = "c_baud"
  /\ lpc' = [lpc EXCEPT ![stopChan + 1] = "top"]
  /\ UNCHANGED <<isConnected, reconnectAttempts, commandCounter, pendingCommands,
                 stopChan, stopClosed, autoReconnect, connected>>
  /\ UNCHANGED <<timevars, svars, cleanupDue, content>>
  /\ UNCHANGED <<fvars, dvars, xvars>>

\* Controller.Connect -> Transport.Connect, lines 144-176: already connected
\* (return nil); FindCOMPort fails to list the ports (its error is returned
\* as it is, 153-154), the port is not found or does not open (a connection
\* error, 156-157, 172-173); or it opens and is stored in s.serialPort.
CtlConnect(limit) ==
  /\ ~Crashed
  /\ cpc = "idle"
  /\ stopChan < limit
  /\ IF isConnected
     THEN /\ connected' = TRUE
          /\ callbackArg' = NotifyArg(TRUE)
          /\ connectRet' = NoErr
          /\ UNCHANGED <<serialPort, cpc>>
     ELSE \/ /\ connectRet' \in {ErrList, ErrConnection}
             /\ UNCHANGED <<serialPort, cpc, connected, callbackArg>>
          \/ /\ serialPort' = "open"
             /\ cpc' = "c_baud"
             /\ UNCHANGED <<connected, callbackArg, connectRet>>
  /\ UNCHANGED <<isConnected, reconnectAttempts, commandCounter, pendingCommands,
                 stopChan, stopClosed, autoReconnect>>
  /\ UNCHANGED <<timevars, svars, lvars>>
  /\ UNCHANGED <<avars, dvars, xvars>>

\* Connect, lines 178-185: changeBaudTo4M fails (close, nil, error) or
\* succeeds (isConnected.Store(true), reconnectAttempts = 0).  Only this
\* thread sets s.serialPort to nil, so the port is not nil here.
CtlBaud ==
  /\ ~Crashed
  /\ cpc = "c_baud"
  /\ \/ /\ serialPort' = "nil"
        /\ cpc' = "idle"
        /\ connectRet' = ErrConnection
        /\ UNCHANGED <<isConnected, reconnectAttempts>>
     \/ /\ serialPort = "open"
        /\ isConnected' = TRUE
        /\ reconnectAttempts' = 0
        /\ cpc' = "c_start"
        /\ UNCHANGED <<serialPort, connectRet>>
  /\ UNCHANGED <<commandCounter, pendingCommands, stopChan, stopClosed,
                 autoReconnect, connected>>
  /\ UNCHANGED <<timevars, svars, lvars>>
  /\ UNCHANGED <<avars, callbackArg, dvars, xvars>>

\* Connect, lines 187-198, and Controller.Connect 92-93: a fresh stopChan,
\* the listen goroutine is started, c.connected = true and the callbacks
\* are called with true.
CtlStart ==
  /\ ~Crashed
  /\ cpc = "c_start"
  /\ stopChan' = stopChan + 1
  /\ lpc' = [lpc EXCEPT ![stopChan + 1] = "top"]
  /\ connected' = TRUE
  /\ callbackArg' = NotifyArg(TRUE)
  /\ connectRet' = NoErr
  /\ cpc' = "idle"
  /\ UNCHANGED <<isConnected, serialPort, reconnectAttempts, commandCounter,
                 pendingCommands, stopClosed, autoReconnect>>
  /\ UNCHANGED <<timevars, svars, cleanupDue, content>>
  /\ UNCHANGED <<avars, dvars, xvars>>

\* Disconnect, lines 205-213: isConnected.Store(false) and close(s.stopChan)
\* unless already closed; closing wakes every select parked on that channel.
CtlDisconnect ==
  /\ ~Crashed
  /\ cpc = "idle"
  /\ isConnected' = FALSE
  /\ stopClosed' = stopClosed \cup {stopChan}
  /\ pc' = [s \in Senders |->
              IF pc[s] = "parked" /\ stopCh[s] = stopChan THEN "woke_stop" ELSE pc[s]]
  /\ cpc' = "d_clear"
  /\ UNCHANGED <<serialPort, reconnectAttempts, commandCounter, pendingCommands,
                 stopChan, autoReconnect, connected>>
  /\ UNCHANGED <<timevars, command, expect, cmdID, stopCh, resultCh, ret, written, lvars>>
  /\ UNCHANGED <<fvars, dvars, xvars>>

\* Disconnect, lines 216-225: after the 10 ms wait the table is replaced.
CtlClear ==
  /\ ~Crashed
  /\ cpc = "d_clear"
  /\ pendingCommands' = [i \in {} |-> 0]
  /\ cpc' = "d_close"
  /\ UNCHANGED <<isConnected, serialPort, reconnectAttempts, commandCounter,
                 stopChan, stopClosed, autoReconnect, connected>>
  /\ UNCHANGED <<timevars, svars, lvars>>
  /\ UNCHANGED <<fvars, dvars, xvars>>

\* A variant of the end of Disconnect that also drops the lock cache.
CtlClose_DropsCache ==
  /\ ~Crashed
  /\ cpc = "d_close"
  /\ serialPort' = "nil"
  /\ connected' = FALSE
  /\ cpc' = "idle"
  /\ cacheValid' = FALSE
  /\ UNCHANGED <<isConnected, reconnectAttempts, commandCounter, pendingCommands,
                 stopChan, stopClosed, autoReconnect>>
  /\ UNCHANGED <<timevars, svars, lvars>>
  /\ UNCHANGED <<opc, op, opret, lockStatesCache, opCount, prevOp, sends, dvars, xvars>>
  /\ UNCHANGED connectRet
  /\ callbackArg' = NotifyArg(FALSE)

\* Disconnect, lines 227-234, and Controller.Disconnect 100: the channel is
\* closed and s.serialPort set to nil, c.connected = false.
CtlClose ==
  /\ ~Crashed
  /\ cpc = "d_close"
  /\ serialPort' = "nil"
  /\ connected' = FALSE
  /\ callbackArg' = NotifyArg(FALSE)
  /\ cpc' = "idle"
  /\ UNCHANGED <<isConnected, reconnectAttempts, commandCounter, pendingCommands,
                 stopChan, stopClosed, autoReconnect>>
  /\ UNCHANGED <<timevars, svars, lvars>>
  /\ UNCHANGED <<avars, connectRet, dvars, xvars>>

\* ---------------------------------------------------- controller operations
\* The caller enters Transport.SendCommand(c, e, timeout) in its frame.
CallSend(c, e) ==
  /\ pc' = [pc EXCEPT ![Frame] = "check"]
  /\ command' = [command EXCEPT ![Frame] = c]
  /\ expect' = [expect EXCEPT ![Frame] = e]
  /\ cmdID' = [cmdID EXCEPT ![Frame] = NoID]
  /\ stopCh' = [stopCh EXCEPT ![Frame] = 0]
  /\ resultCh' = [resultCh EXCEPT ![Frame] = NoLine]
  /\ ret' = [ret EXCEPT ![Frame] = [value |-> NoLine, err |-> NoErr]]
  /\ written' = [written EXCEPT ![Frame] = NoWrite]
  /\ sends' = sends + 1

\* The caller invokes a controller operation (controller.go 113-353); one
\* operation call is followed from its entry to its return.
StartOp(name, arg) ==
  /\ ~Crashed
  /\ opc = "idle"
  /\ op' = [name |-> name, arg |-> arg]
  /\ opret' = [value |-> NoLine, err |-> NoErr]
  /\ opc' = "check"
  /\ UNCHANGED <<tvars, timevars, svars, cpc, lvars, lockStatesCache, cacheValid>>
  /\ UNCHANGED <<callbackArg, connectRet, opCount, prevOp, sends>>
  /\ UNCHANGED <<dvars, xvars>>

\* checkConnection (72-77) at the head of every operation.
OpCheck ==
  /\ ~Crashed
  /\ opc = "check"
  /\ IF ~connected
     THEN /\ opret' = [value |-> NoLine, err |-> ErrConnection]
          /\ opc' = "done"
     ELSE /\ opc' = "mouse"
          /\ UNCHANGED opret
  /\ UNCHANGED <<tvars, timevars, svars, cpc, lvars, op, lockStatesCache, cacheValid>>
  /\ UNCHANGED <<callbackArg, connectRet, opCount, prevOp, sends>>
  /\ UNCHANGED <<dvars, xvars>>

\* The command the Mouse method sends first, and whether it awaits a reply.
OpCommand(o) ==
  CASE o.name \in {"Click", "Press"} -> PressCmd
    [] o.name = "Release" -> ReleaseCmd
    [] o.name = "Move" -> MoveCmd
    [] o.name = "Scroll" -> ScrollCmd
    [] o.name = "Lock" -> LockCmd
    [] o.name = "Unlock" -> UnlockCmd
    [] OTHER -> VersionCmd

\* The Mouse method behind the operation: mouse.go Press 57-63, Release
\* 66-72, Move 83-86, Scroll 102-105, setLock 109-122 (via setLockByTarget,
\* controller.go 226-245), GetFirmwareVersion 277-283.
OpMouse ==
  /\ ~Crashed
  /\ opc = "mouse"
  /\ op.name \in Ops
  /\ IF op.arg = "bad"
     THEN /\ opret' = [value |-> NoLine,
                       err |-> IF op.name \in {"Lock", "Unlock"}
                               THEN ErrTarget ELSE ErrCommand]
          /\ opc' = "done"
          /\ UNCHANGED <<svars, sends>>
     ELSE /\ CallSend(OpCommand(op), op.name = "GetFirmwareVersion")
          /\ opc' = "call"
          /\ UNCHANGED opret
  /\ UNCHANGED <<tvars, timevars, cpc, lvars, op, lockStatesCache, cacheValid>>
  /\ UNCHANGED <<callbackArg, connectRet, opCount, prevOp>>
  /\ UNCHANGED <<dvars, xvars>>

\* A variant of setLock that updates the target's bit without marking the
\* cache valid.
OpReturn_LeavesCacheInvalid ==
  /\ ~Crashed
  /\ opc = "call"
  /\ op.name \in Ops
  /\ pc[Frame] = "done"
  /\ IF op.name = "Click" /\ command[Frame] = PressCmd /\ ret[Frame].err = NoErr
     THEN /\ CallSend(ReleaseCmd, FALSE)
          /\ UNCHANGED <<opc, opret, lockStatesCache, cacheValid>>
     ELSE /\ opret' = ret[Frame]
          /\ opc' = "done"
          /\ IF op.name \in {"Lock", "Unlock"} /\ ret[Frame].err = NoErr
             THEN /\ lockStatesCache' = IF op.name = "Lock"
                                        THEN lockStatesCache \cup {op.arg}
                                        ELSE lockStatesCache \ {op.arg}
                  /\ UNCHANGED cacheValid
             ELSE UNCHANGED <<lockStatesCache, cacheValid>>
          /\ UNCHANGED <<svars, sends>>
  /\ UNCHANGED <<tvars, timevars, cpc, lvars, op>>
  /\ UNCHANGED <<callbackArg, connectRet, opCount, prevOp>>
  /\ UNCHANGED <<dvars, xvars>>

\* SendCommand has returned to the Mouse method: Click goes on to Release
\* (controller.go 117-120), setLock updates the cache (mouse.go 123-131),
\* the others return what SendCommand returned.
OpReturn ==
  /\ ~Crashed
  /\ opc = "call"
  /\ op.name \in Ops
  /\ pc[Frame] = "done"
  /\ IF op.name = "Click" /\ command[Frame] = PressCmd /\ ret[Frame].err = NoErr
     THEN /\ CallSend(ReleaseCmd, FALSE)
          /\ UNCHANGED <<opc, opret, lockStatesCache, cacheValid>>
     ELSE /\ opret' = ret[Frame]
          /\ opc' = "done"
          /\ IF op.name \in {"Lock", "Unlock"} /\ ret[Frame].err = NoErr
             THEN /\ lockStatesCache' = IF op.name = "Lock"
                                        THEN lockStatesCache \cup {op.arg}
                                        ELSE lockStatesCache \ {op.arg}
                  /\ cacheValid' = TRUE
             ELSE UNCHANGED <<lockStatesCache, cacheValid>>
          /\ UNCHANGED <<svars, sends>>
  /\ UNCHANGED <<tvars, timevars, cpc, lvars, op>>
  /\ UNCHANGED <<callbackArg, connectRet, opCount, prevOp>>
  /\ UNCHANGED <<dvars, xvars>>

\* strings.TrimSpace on a response text (mouse.go 176).
IsBlank(c) == c \in {" ", "\t", "\n", "\r"}
RECURSIVE TrimText(_)
TrimText(t) ==
  IF t = <<>> THEN t
  ELSE IF IsBlank(Head(t)) THEN TrimText(Tail(t))
  ELSE IF IsBlank(t[Len(t)]) THEN TrimText(SubSeq(t, 1, Len(t) - 1))
  ELSE t

\* strings.ToUpper(button.String()) looked up in lockTargets (mouse.go
\* 157-165): the left button has the target LEFT, the right button RIGHT,
\* an unknown one has none.
LockName(arg) ==
  IF arg = "left" THEN "LEFT" ELSE IF arg = "right" THEN "RIGHT" ELSE "none"

\* A variant of IsLocked that also marks the cache valid after a query.
IsLockedReturn_MarksValid ==
  /\ ~Crashed
  /\ opc = "query"
  /\ pc[Frame] = "done"
  /\ IF ret[Frame].err # NoErr
     THEN /\ opret' = [value |-> BoolValue(FALSE), err |-> ret[Frame].err]
          /\ UNCHANGED <<lockStatesCache, cacheValid>>
     ELSE /\ opret' = [value |-> BoolValue(TrimText(ret[Frame].value) = <<"1">>),
                       err |-> NoErr]
          /\ lockStatesCache' = IF TrimText(ret[Frame].value) = <<"1">>
                                THEN lockStatesCache \cup {LockName(op.arg)}
                                ELSE lockStatesCache \ {LockName(op.arg)}
          /\ cacheValid' = TRUE
  /\ opc' = "done"
  /\ UNCHANGED <<tvars, timevars, svars, cpc, lvars, op, opCount, prevOp, sends, callbackArg, connectRet>>
  /\ UNCHANGED <<dvars, xvars>>

\* A variant of IsLocked that queries the device although the cache is valid.
IsLocked_AlwaysQueries ==
  /\ ~Crashed
  /\ opc = "mouse"
  /\ op.name = "IsLocked"
  /\ IF LockName(op.arg) = "none"
     THEN /\ opret' = [value |-> BoolValue(FALSE), err |-> ErrCommand]
          /\ opc' = "done"
          /\ UNCHANGED <<svars, sends>>
     ELSE /\ CallSend(QueryCmdOf(LockName(op.arg)), TRUE)
          /\ opc' = "query"
          /\ UNCHANGED opret
  /\ UNCHANGED <<tvars, timevars, cpc, lvars, op, lockStatesCache, cacheValid>>
  /\ UNCHANGED <<callbackArg, connectRet, opCount, prevOp>>
  /\ UNCHANGED <<dvars, xvars>>

\* A variant of IsLocked that answers from the cache although it is invalid.
IsLocked_AlwaysCached ==
  /\ ~Crashed
  /\ opc = "mouse"
  /\ op.name = "IsLocked"
  /\ IF LockName(op.arg) = "none"
     THEN opret' = [value |-> BoolValue(FALSE), err |-> ErrCommand]
     ELSE opret' = [value |-> BoolValue(LockName(op.arg) \in lockStatesCache),
                    err |-> NoErr]
  /\ opc' = "done"
  /\ UNCHANGED <<tvars, timevars, svars, cpc, lvars, op, lockStatesCache, cacheValid>>
  /\ UNCHANGED <<callbackArg, connectRet, opCount, prevOp, sends>>
  /\ UNCHANGED <<dvars, xvars>>

\* Mouse.IsLocked (mouse.go 156-173) up to its SendCommand call: an unknown
\* target is a command error, a valid cache answers with the cached bit, and
\* otherwise the query command is sent expecting a response.
IsLocked ==
  /\ ~Crashed
  /\ opc = "mouse"
  /\ op.name = "IsLocked"
  /\ IF LockName(op.arg) = "none"
     THEN /\ opret' = [value |-> BoolValue(FALSE), err |-> ErrCommand]
          /\ opc' = "done"
          /\ UNCHANGED <<svars, sends>>
     ELSE IF cacheValid
     THEN /\ opret' = [value |-> BoolValue(LockName(op.arg) \in lockStatesCache),
                       err |-> NoErr]
          /\ opc' = "done"
          /\ UNCHANGED <<svars, sends>>
     ELSE /\ CallSend(QueryCmdOf(LockName(op.arg)), TRUE)
          /\ opc' = "query"
          /\ UNCHANGED opret
  /\ UNCHANGED <<tvars, timevars, cpc, lvars, op, lockStatesCache, cacheValid>>
  /\ UNCHANGED <<callbackArg, connectRet, opCount, prevOp>>
  /\ UNCHANGED <<dvars, xvars>>

\* Mouse.IsLocked after SendCommand has returned (mouse.go 172-183): an error
\* is passed on; otherwise the trimmed response "1" means locked and the bit
\* of the target is updated. cacheValid is not written.
IsLockedReturn ==
  /\ ~Crashed
  /\ opc = "query"
  /\ pc[Frame] = "done"
  /\ IF ret[Frame].err # NoErr
     THEN /\ opret' = [value |-> BoolValue(FALSE), err |-> ret[Frame].err]
          /\ UNCHANGED lockStatesCache
     ELSE /\ opret' = [value |-> BoolValue(TrimText(ret[Frame].value) = <<"1">>),
                       err |-> NoErr]
          /\ lockStatesCache' = IF TrimText(ret[Frame].value) = <<"1">>
                                THEN lockStatesCache \cup {LockName(op.arg)}
                                ELSE lockStatesCache \ {LockName(op.arg)}
  /\ opc' = "done"
  /\ UNCHANGED <<tvars, timevars, svars, cpc, lvars, op, cacheValid>>
  /\ UNCHANGED <<callbackArg, connectRet, opCount, prevOp, sends>>
  /\ UNCHANGED <<dvars, xvars>>

\* A map entry of GetAllLockStates as text.
StateText(b) == IF b THEN "true" ELSE "false"

\* GetAllLockStates on a valid cache (mouse.go 187-197): each target's bit.
CachedStates ==
  [i \in 1..Len(Targets) |-> StateText(Targets[i] \in lockStatesCache)]

\* Mouse.GetAllLockStates (mouse.go 186-204) up to its first SendCommand
\* call: a valid cache answers; otherwise the first target is queried.
GetAllLockStates ==
  /\ ~Crashed
  /\ opc = "mouse"
  /\ op.name = "GetAllLockStates"
  /\ IF cacheValid
     THEN /\ opret' = [value |-> CachedStates, err |-> NoErr]
          /\ opc' = "done"
          /\ UNCHANGED <<svars, sends>>
     ELSE /\ CallSend(QueryCmdOf(Targets[1]), TRUE)
          /\ opc' = "getall"
          /\ UNCHANGED opret
  /\ UNCHANGED <<tvars, timevars, cpc, lvars, op, lockStatesCache, cacheValid>>
  /\ UNCHANGED <<callbackArg, connectRet, opCount, prevOp>>
  /\ UNCHANGED <<dvars, xvars>>

\* A variant of the loop that clears the bit of a target whose query failed.
GetAllLockStatesNext_ClearsFailed ==
  /\ ~Crashed
  /\ opc = "getall"
  /\ pc[Frame] = "done"
  /\ LET name == Targets[sends]
         failed == ret[Frame].err # NoErr
         locked == ~failed /\ TrimText(ret[Frame].value) = <<"1">>
     IN /\ lockStatesCache' = IF locked THEN lockStatesCache \cup {name}
                              ELSE lockStatesCache \ {name}
        /\ opret' = [value |-> Append(opret.value, StateText(locked)), err |-> NoErr]
  /\ IF sends < Len(Targets)
     THEN /\ CallSend(QueryCmdOf(Targets[sends + 1]), TRUE)
          /\ UNCHANGED <<opc, cacheValid>>
     ELSE /\ cacheValid' = TRUE
          /\ opc' = "done"
          /\ UNCHANGED <<svars, sends>>
  /\ UNCHANGED <<tvars, timevars, cpc, lvars, op>>
  /\ UNCHANGED <<callbackArg, connectRet, opCount, prevOp>>
  /\ UNCHANGED <<dvars, xvars>>

\* Mouse.GetAllLockStates, the loop over the targets (mouse.go 201-219):
\* SendCommand has returned for the target in turn; a failed query puts
\* false in the map and leaves the bit alone, an answer sets or clears the
\* bit; then the next target is queried, or the cache is marked valid and
\* the map is returned.
GetAllLockStatesNext ==
  /\ ~Crashed
  /\ opc = "getall"
  /\ pc[Frame] = "done"
  /\ LET name == Targets[sends]
         failed == ret[Frame].err # NoErr
         locked == ~failed /\ TrimText(ret[Frame].value) = <<"1">>
     IN /\ lockStatesCache' = IF failed THEN lockStatesCache
                              ELSE IF locked THEN lockStatesCache \cup {name}
                              ELSE lockStatesCache \ {name}
        /\ opret' = [value |-> Append(opret.value, StateText(locked)), err |-> NoErr]
  /\ IF sends < Len(Targets)
     THEN /\ CallSend(QueryCmdOf(Targets[sends + 1]), TRUE)
          /\ UNCHANGED <<opc, cacheValid>>
     ELSE /\ cacheValid' = TRUE
          /\ opc' = "done"
          /\ UNCHANGED <<svars, sends>>
  /\ UNCHANGED <<tvars, timevars, cpc, lvars, op>>
  /\ UNCHANGED <<callbackArg, connectRet, opCount, prevOp>>
  /\ UNCHANGED <<dvars, xvars>>

\* A variant of InvalidateCache that leaves the flag alone.
InvalidateCache_Keeps ==
  /\ ~Crashed
  /\ opc = "idle"
  /\ op' = [name |-> "InvalidateCache", arg |-> "-"]
  /\ opret' = [value |-> NoLine, err |-> NoErr]
  /\ opc' = "done"
  /\ UNCHANGED <<tvars, timevars, svars, cpc, lvars, lockStatesCache, cacheValid>>
  /\ UNCHANGED <<callbackArg, connectRet, opCount, prevOp, sends>>
  /\ UNCHANGED <<dvars, xvars>>

\* Mouse.InvalidateCache (mouse.go 286-288), called on the controller's
\* exported Mouse field: no connection check, no command.
InvalidateCache ==
  /\ ~Crashed
  /\ opc = "idle"
  /\ op' = [name |-> "InvalidateCache", arg |-> "-"]
  /\ opret' = [value |-> NoLine, err |-> NoErr]
  /\ cacheValid' = FALSE
  /\ opc' = "done"
  /\ UNCHANGED <<tvars, timevars, svars, cpc, lvars, lockStatesCache>>
  /\ UNCHANGED <<callbackArg, connectRet, opCount, prevOp, sends>>
  /\ UNCHANGED <<dvars, xvars>>

\* The operation has returned and the caller goes on to its next call.
NextOp ==
  /\ ~Crashed
  /\ opc = "done"
  /\ opCount + 1 < MaxOps
  /\ opCount' = opCount + 1
  /\ prevOp' = [name |-> op.name, arg |-> op.arg, err |-> opret.err]
  /\ sends' = 0
  /\ opc' = "idle"
  /\ UNCHANGED <<tvars, timevars, svars, cpc, lvars, op, opret, lockStatesCache, cacheValid>>
  /\ UNCHANGED <<callbackArg, connectRet, dvars, xvars>>

\* MakcuController.SetButtonCallback (controller.go 392-398) and
\* SerialTransport.SetButtonCallback (connection.go 307-310): after the
\* connection check the callback is stored; nil removes it.
SetButtonCallback(cb) ==
  /\ ~Crashed
  /\ connected
  /\ buttonCallback' = cb
  /\ UNCHANGED <<tvars, timevars, svars, cpc, lvars, fvars, xvars>>
  /\ UNCHANGED <<lineBuffer, expectingTextMode, lastByte, lastButtonMask,
                 buttonStates, emitted, buttonCalls, apply>>

\* ------------------------------------------------------------------- time
Running(l) == lpc[l] \notin {"none", "exited", "panic"}

\* More than cleanupInterval (50 ms) passes since every loop's lastCleanup.
ElapseInterval ==
  /\ ~Crashed
  /\ \E l \in Listeners : Running(l) /\ ~cleanupDue[l]
  /\ cleanupDue' = [l \in Listeners |-> Running(l)]
  /\ UNCHANGED <<tvars, timevars, svars, cpc, lpc, content>>
  /\ UNCHANGED <<fvars, dvars, xvars>>

\* More than one second passes: the commands registered before instant t
\* are now older than time.Second.
ElapseSecond ==
  /\ ~Crashed
  /\ \E t \in (staleBefore + 1)..now : staleBefore' = t
  /\ cleanupDue' = [l \in Listeners |-> Running(l)]
  /\ UNCHANGED <<tvars, now, svars, cpc, lpc, content>>
  /\ UNCHANGED <<fvars, dvars, xvars>>

\* ------------------------------------------------------------------- Spec
\* The connection lifecycle: one caller of SendCommand, the thread calling
\* Connect/Disconnect, the listen goroutines of MaxConnects connections,
\* automatic reconnection enabled or disabled.
Init ==
  /\ InitTransport
  /\ commandCounter = 0
  /\ autoReconnect \in BOOLEAN

Next ==
  \/ \E e \in BOOLEAN : StartSend("s1", CmdA, e)
  \/ SendCheck("s1")
  \/ SendGenRead("s1")
  \/ SendGenStore("s1")
  \/ SendRegister("s1")
  \/ SendWriteFF("s1")
  \/ SendWrite("s1")
  \/ SendSelect("s1")
  \/ SendTimerFires("s1")
  \/ SendReturnResult("s1")
  \/ SendReturnError("s1")
  \/ \E l \in Listeners : ListenTop(l)
  \/ \E l \in Listeners : ListenReadNothing(l)
  \/ \E l \in Listeners, c \in {Line1, CmdA} : ListenReadLine(l, c)
  \/ \E l \in Listeners : ListenCleanup(l)
  \/ \E l \in Listeners : ListenReadNil(l)
  \/ \E l \in Listeners : ListenReadError(l)
  \/ \E l \in Listeners : ListenAttempt(l)
  \/ \E l \in Listeners : ListenReopen(l)
  \/ \E l \in Listeners : ListenBaud(l)
  \/ CtlConnect(MaxConnects)
  \/ CtlBaud
  \/ CtlStart
  \/ CtlDisconnect
  \/ CtlClear
  \/ CtlClose

Spec == Init /\ [][Next]_vars

\* Command correlation: two callers whose commands are submitted one at a
\* time and wait concurrently, on one connection that is not disconnected by
\* the user (AutoReconnect off, so a read error ends the read loop), the
\* passage of time, the id counter at 0 and near its wrap.
InitCorr ==
  /\ InitTransport
  /\ commandCounter \in StartCounters
  /\ autoReconnect = FALSE

NextCorr ==
  \/ \E s \in Senders, e \in BOOLEAN : StartSendInTurn(s, CmdOf(s), e)
  \/ \E s \in Senders : SendCheck(s)
  \/ \E s \in Senders : SendGenRead(s)
  \/ \E s \in Senders : SendGenStore(s)
  \/ \E s \in Senders : SendRegister(s)
  \/ \E s \in Senders : SendWriteFF(s)
  \/ \E s \in Senders : SendWrite(s)
  \/ \E s \in Senders : SendSelect(s)
  \/ \E s \in Senders : SendTimerFires(s)
  \/ \E s \in Senders : SendReturnResult(s)
  \/ \E s \in Senders : SendReturnError(s)
  \/ ListenTop(1)
  \/ ListenReadNothing(1)
  \/ \E c \in Contents : ListenReadLine(1, c)
  \/ ListenCleanup(1)
  \/ ListenReadError(1)
  \/ CtlConnect(MaxConnects)
  \/ CtlBaud
  \/ CtlStart
  \/ ElapseInterval
  \/ ElapseSecond

SpecCorr == InitCorr /\ [][NextCorr]_vars

\* Id allocation: two callers whose response-expecting SendCommand calls
\* run concurrently on one connection, with the id counter at 0 and near
\* its wrap.
NextIds ==
  \/ \E s \in Senders : StartSend(s, CmdOf(s), TRUE)
  \/ \E s \in Senders : SendCheck(s)
  \/ \E s \in Senders : SendGenRead(s)
  \/ \E s \in Senders : SendGenStore(s)
  \/ \E s \in Senders : SendRegister(s)
  \/ \E s \in Senders : SendWrite(s)
  \/ \E s \in Senders : SendSelect(s)
  \/ \E s \in Senders : SendTimerFires(s)
  \/ \E s \in Senders : SendReturnResult(s)
  \/ \E s \in Senders : SendReturnError(s)
  \/ ListenTop(1)
  \/ ListenReadNothing(1)
  \/ ListenReadLine(1, Line1)
  \/ ListenCleanup(1)
  \/ CtlConnect(MaxConnects)
  \/ CtlBaud
  \/ CtlStart

SpecIds == InitCorr /\ [][NextIds]_vars

\* A late reply: two callers whose response-expecting commands are
\* submitted in turn on one connection and may time out, and a device that
\* answers with the line tagged with id 1.
NextLate ==
  \/ \E s \in Senders : StartSendInTurn(s, CmdOf(s), TRUE)
  \/ \E s \in Senders : SendCheck(s)
  \/ \E s \in Senders : SendGenRead(s)
  \/ \E s \in Senders : SendGenStore(s)
  \/ \E s \in Senders : SendRegister(s)
  \/ \E s \in Senders : SendWrite(s)
  \/ \E s \in Senders : SendSelect(s)
  \/ \E s \in Senders : SendTimerFires(s)
  \/ \E s \in Senders : SendReturnResult(s)
  \/ \E s \in Senders : SendReturnError(s)
  \/ ListenTop(1)
  \/ ListenReadNothing(1)
  \/ ListenReadLine(1, LateLine)
  \/ ListenCleanup(1)
  \/ CtlConnect(MaxConnects)
  \/ CtlBaud
  \/ CtlStart

SpecLate == InitCorr /\ [][NextLate]_vars

\* One iteration step of listen goroutine l.
ListenStep(l) ==
  \/ ListenTop(l)
  \/ ListenReadNothing(l)
  \/ \E c \in {Line1, CmdA} : ListenReadLine(l, c)
  \/ ListenCleanup(l)
  \/ ListenReadNil(l)
  \/ ListenReadError(l)
  \/ ListenAttempt(l)
  \/ ListenReopen(l)
  \/ ListenBaud(l)

\* The lifecycle without callers of SendCommand (no step of SendCommand
\* writes the connection state, the port or the attempt counter).
NextLifecycle ==
  \/ \E l \in Listeners : ListenTop(l)
  \/ \E l \in Listeners : ListenReadNothing(l)
  \/ \E l \in Listeners, c \in {Line1, CmdA} : ListenReadLine(l, c)
  \/ \E l \in Listeners : ListenCleanup(l)
  \/ \E l \in Listeners : ListenReadNil(l)
  \/ \E l \in Listeners : ListenReadError(l)
  \/ \E l \in Listeners : ListenAttempt(l)
  \/ \E l \in Listeners : ListenReopen(l)
  \/ \E l \in Listeners : ListenBaud(l)
  \/ CtlConnect(MaxConnects)
  \/ CtlBaud
  \/ CtlStart
  \/ CtlDisconnect
  \/ CtlClear
  \/ CtlClose

\* That lifecycle with the scheduler's guarantee that a listen goroutine that
\* can take a step eventually takes one (its reads and sleeps are bounded).
SpecFair ==
  Init /\ [][NextLifecycle]_vars /\ \A l \in Listeners : WF_vars(ListenStep(l))

\* The connection lifecycle when Disconnect's 10 ms wait (line 216) is long
\* enough for a read loop that is reading or routing to reach its loop
\* condition: only the delays of attemptReconnect outlast it, and no read
\* is in progress when the port is set to nil.
GraceElapsed == \A l \in Listeners : lpc[l] \notin {"top", "read", "cleanup", "rinc"}

CtlClearAfterGrace == GraceElapsed /\ CtlClear

NextGrace ==
  \/ \E e \in BOOLEAN : StartSend("s1", CmdA, e)
  \/ SendCheck("s1")
  \/ SendGenRead("s1")
  \/ SendGenStore("s1")
  \/ SendRegister("s1")
  \/ SendWriteFF("s1")
  \/ SendWrite("s1")
  \/ SendSelect("s1")
  \/ SendTimerFires("s1")
  \/ SendReturnResult("s1")
  \/ SendReturnError("s1")
  \/ \E l \in Listeners : ListenTop(l)
  \/ \E l \in Listeners : ListenReadNothing(l)
  \/ \E l \in Listeners, c \in {Line1, CmdA} : ListenReadLine(l, c)
  \/ \E l \in Listeners : ListenCleanup(l)
  \/ \E l \in Listeners : ListenReadError(l)
  \/ \E l \in Listeners : ListenAttempt(l)
  \/ \E l \in Listeners : ListenReopen(l)
  \/ \E l \in Listeners : ListenBaud(l)
  \/ CtlConnect(MaxConnects)
  \/ CtlBaud
  \/ CtlStart
  \/ CtlDisconnect
  \/ CtlClearAfterGrace
  \/ CtlClose

SpecGrace == Init /\ [][NextGrace]_vars

\* The controller facade: one caller of controller operations, the thread
\* calling Connect/Disconnect, AutoReconnect off.
InitFacade ==
  /\ InitTransport
  /\ commandCounter = 0
  /\ autoReconnect = FALSE

NextFacade ==
  \/ \E name \in Ops : \E arg \in Args(name) : StartOp(name, arg)
  \/ OpCheck
  \/ OpMouse
  \/ OpReturn
  \/ SendCheck(Frame)
  \/ SendGenRead(Frame)
  \/ SendGenStore(Frame)
  \/ SendRegister(Frame)
  \/ SendWriteFF(Frame)
  \/ SendWrite(Frame)
  \/ SendSelect(Frame)
  \/ SendTimerFires(Frame)
  \/ SendReturnResult(Frame)
  \/ SendReturnError(Frame)
  \/ \E l \in Listeners : ListenTop(l)
  \/ \E l \in Listeners : ListenReadNothing(l)
  \/ \E l \in Listeners : ListenReadLine(l, Line1)
  \/ \E l \in Listeners : ListenCleanup(l)
  \/ \E l \in Listeners : ListenReadNil(l)
  \/ \E l \in Listeners : ListenReadError(l)
  \/ CtlConnect(MaxConnects)
  \/ CtlBaud
  \/ CtlStart
  \/ CtlDisconnect
  \/ CtlClear
  \/ CtlClose

SpecFacade == InitFacade /\ [][NextFacade]_vars

\* One caller making up to MaxOps lock operations in a row on the
\* controller: Lock and Unlock of the left button, IsLocked and
\* InvalidateCache, over one connection whose device answers "1" or "0",
\* may stay silent, and whose port may fail.
LockOp ==
  \/ \E name \in {"Lock", "Unlock"} : StartOp(name, "LEFT")
  \/ \E arg \in {"left", "bad"} : StartOp("IsLocked", arg)
  \/ InvalidateCache
  \/ NextOp

NextLock ==
  \/ LockOp
  \/ OpCheck
  \/ OpMouse
  \/ OpReturn
  \/ IsLocked
  \/ IsLockedReturn
  \/ SendCheck(Frame)
  \/ SendGenRead(Frame)
  \/ SendGenStore(Frame)
  \/ SendRegister(Frame)
  \/ SendWriteFF(Frame)
  \/ SendWrite(Frame)
  \/ SendSelect(Frame)
  \/ SendTimerFires(Frame)
  \/ SendReturnResult(Frame)
  \/ SendReturnError(Frame)
  \/ ListenTop(1)
  \/ ListenReadNothing(1)
  \/ \E line \in Lines : ListenReadLine(1, line)
  \/ ListenCleanup(1)
  \/ ListenReadError(1)
  \/ CtlConnect(MaxConnects)
  \/ CtlBaud
  \/ CtlStart
  \/ CtlDisconnect
  \/ CtlClear
  \/ CtlClose

SpecLock == InitFacade /\ [][NextLock]_vars

\* One caller making up to MaxOps lock operations in a row: Lock and Unlock
\* of LEFT, IsLocked of the right button and GetAllLockStates, over one
\* connection whose device answers "1" or "0" or stays silent, and whose
\* port may fail.
LockAllOp ==
  \/ \E name \in {"Lock", "Unlock"} : StartOp(name, "LEFT")
  \/ StartOp("IsLocked", "right")
  \/ StartOp("GetAllLockStates", "-")
  \/ NextOp

NextLockAll ==
  \/ LockAllOp
  \/ OpCheck
  \/ OpMouse
  \/ OpReturn
  \/ IsLocked
  \/ IsLockedReturn
  \/ GetAllLockStates
  \/ GetAllLockStatesNext
  \/ SendCheck(Frame)
  \/ SendGenRead(Frame)
  \/ SendGenStore(Frame)
  \/ SendRegister(Frame)
  \/ SendWriteFF(Frame)
  \/ SendWrite(Frame)
  \/ SendSelect(Frame)
  \/ SendTimerFires(Frame)
  \/ SendReturnResult(Frame)
  \/ SendReturnError(Frame)
  \/ ListenTop(1)
  \/ ListenReadNothing(1)
  \/ \E line \in Lines : ListenReadLine(1, line)
  \/ ListenCleanup(1)
  \/ CtlConnect(MaxConnects)
  \/ CtlBaud
  \/ CtlStart

SpecLockAll == InitFacade /\ [][NextLockAll]_vars

\* ------------------------------------------------ accesses to shared state
\* s.commandLock.Lock() at the head of an access to the pending-command
\* table: the context waits for the mutex.
TableLock(c, fn) ==
  /\ at[c] = Outside
  /\ fn \in TableFns(c)
  /\ at' = [at EXCEPT ![c] = [fn |-> fn, res |-> "table", phase |-> "wait"]]
  /\ UNCHANGED <<tvars, timevars, svars, cpc, lvars, fvars, dvars, commandLock>>

\* Lock() returns once the mutex is free; the context is inside the access.
TableAcquire(c) ==
  /\ at[c].phase = "wait"
  /\ commandLock = Free
  /\ commandLock' = c
  /\ at' = [at EXCEPT ![c].phase = "in"]
  /\ UNCHANGED <<tvars, timevars, svars, cpc, lvars, fvars, dvars>>

\* An access to the input-state cache or to the lock cache: the code takes
\* no mutex before it reads or writes the fields.
PlainEnter(c, fn) ==
  /\ at[c] = Outside
  /\ fn \in InputFns(c) \cup CacheFns(c)
  /\ at' = [at EXCEPT ![c] =
              [fn |-> fn,
               res |-> IF fn \in InputFns(c) THEN "input" ELSE "cache",
               phase |-> "in"]]
  /\ UNCHANGED <<tvars, timevars, svars, cpc, lvars, fvars, dvars, commandLock>>

\* The access ends; s.commandLock.Unlock() if the context holds the mutex.
Leave(c) ==
  /\ at[c].phase = "in"
  /\ at' = [at EXCEPT ![c] = Outside]
  /\ commandLock' = IF commandLock = c THEN Free ELSE commandLock
  /\ UNCHANGED <<tvars, timevars, svars, cpc, lvars, fvars, dvars>>

\* Two callers and the read loop accessing the pending-command table, the
\* input-state cache and the lock cache in any order.
NextAccess ==
  \/ \E c \in Contexts : \E fn \in TableFns(c) : TableLock(c, fn)
  \/ \E c \in Contexts : TableAcquire(c)
  \/ \E c \in Contexts : \E fn \in InputFns(c) \cup CacheFns(c) : PlainEnter(c, fn)
  \/ \E c \in Contexts : Leave(c)

SpecAccess == InitFacade /\ [][NextAccess]_vars

\* The byte stream of one connection: the read loop of the first Connect
\* receives any sequence of the bytes of RxBytes; no command is pending.
NextDemux ==
  \/ CtlConnect(MaxConnects)
  \/ CtlBaud
  \/ CtlStart
  \/ ListenTop(1)
  \/ ListenReadNothing(1)
  \/ \E b \in RxBytes : ListenByte(1, b)
  \/ ListenBytesDone(1)
  \/ ListenCleanup(1)

SpecDemux == InitFacade /\ [][NextDemux]_vars

\* The result of a response-expecting send: two callers whose commands are
\* submitted in turn on one connection, and a device whose reply lines are
\* untagged, tagged, or tagged with a '#' in their text.
NextStrip ==
  \/ \E s \in Senders : StartSendInTurn(s, CmdOf(s), TRUE)
  \/ \E s \in Senders : SendCheck(s)
  \/ \E s \in Senders : SendGenRead(s)
  \/ \E s \in Senders : SendGenStore(s)
  \/ \E s \in Senders : SendRegister(s)
  \/ \E s \in Senders : SendWrite(s)
  \/ \E s \in Senders : SendSelect(s)
  \/ \E s \in Senders : SendTimerFires(s)
  \/ \E s \in Senders : SendReturnResult(s)
  \/ \E s \in Senders : SendReturnError(s)
  \/ ListenTop(1)
  \/ ListenReadNothing(1)
  \/ \E line \in ReplyLines : ListenReadLine(1, line)
  \/ ListenCleanup(1)
  \/ CtlConnect(MaxConnects)
  \/ CtlBaud
  \/ CtlStart

SpecStrip == InitCorr /\ [][NextStrip]_vars

\* Button monitoring on one connection: the user sets and removes the
\* button callback while the device reports button states.
NextInput ==
  \/ \E cb \in BOOLEAN : SetButtonCallback(cb)
  \/ ListenTop(1)
  \/ ListenReadNothing(1)
  \/ \E b \in InputBytes : ListenByte(1, b)
  \/ ListenBytesDone(1)
  \/ ListenCleanup(1)
  \/ CtlConnect(MaxConnects)
  \/ CtlBaud
  \/ CtlStart

SpecInput == InitFacade /\ [][NextInput]_vars

\* The connection lifecycle with a device that reports button states: every
\* read loop running receives state bytes of MaskBytes from the port; no
\* callback is set and no command is sent.
NextMask ==
  \/ \E l \in Listeners : ListenTop(l)
  \/ \E l \in Listeners : ListenReadNothing(l)
  \/ \E l \in Listeners, b \in MaskBytes : ListenStateByte(l, b)
  \/ \E l \in Listeners : ListenStateApply(l)
  \/ \E l \in Listeners : ListenBytesDone(l)
  \/ \E l \in Listeners : ListenCleanup(l)
  \/ \E l \in Listeners : ListenReadError(l)
  \/ \E l \in Listeners : ListenAttempt(l)
  \/ \E l \in Listeners : ListenReopen(l)
  \/ \E l \in Listeners : ListenBaud(l)
  \/ CtlConnect(MaxConnects)
  \/ CtlBaud
  \/ CtlStart
  \/ CtlDisconnect
  \/ CtlClear
  \/ CtlClose

SpecMask == Init /\ [][NextMask]_vars

\* ----------------------------------------------------------------- claims
\* C1: a SendCommand call whose connection check finds the transport
\* Disconnected returns the connection error at once, with no entry added
\* to the table and nothing written; a controller operation whose
\* checkConnection finds the controller not connected (a never-connected
\* controller in particular) returns the connection error without calling
\* the transport.
C1_DisconnectedFailsFast ==
  [][/\ \A s \in Senders :
          (pc[s] = "check" /\ pc'[s] # "check" /\ ~isConnected)
            => /\ pc'[s] = "done"
               /\ ret'[s] = [value |-> NoLine, err |-> ErrConnection]
               /\ pendingCommands' = pendingCommands
               /\ written'[s] = NoWrite
     /\ (opc = "check" /\ opc' # "check" /\ ~connected)
          => /\ opc' = "done"
             /\ opret' = [value |-> NoLine, err |-> ErrConnection]
             /\ UNCHANGED <<svars, pendingCommands>>]_vars

\* An operation on a controller that was never connected has returned the
\* connection error.
C1_Witness ==
  /\ stopChan = 0 /\ serialPort = "nil" /\ cpc = "idle" /\ ~connected
  /\ op.name = "GetFirmwareVersion"
  /\ opc = "done"
  /\ opret.err = ErrConnection
  /\ pc[Frame] = "idle"

\* The pending entry that was submitted first (smallest Timestamp).
OldestID(p) == CHOOSE id \in DOMAIN p : \A j \in DOMAIN p : p[id].Timestamp <= p[j].Timestamp

\* A step in which listener l hands a received line to processPendingCommands.
RouteStep(l) == lpc[l] = "read" /\ lpc'[l] = "cleanup"

\* C2: a step of a SendCommand call with expectResponse=false (its entry, its
\* connection check, its write) leaves the pending-command table as it was,
\* whether the call succeeds or fails.
C2_FireAndForgetKeepsTable ==
  [][\A s \in Senders :
       (pc'[s] # pc[s] /\ ~expect'[s] /\ pc[s] \in {"idle", "check", "write"})
         => pendingCommands' = pendingCommands]_vars

\* A fire-and-forget call has returned successfully while another command
\* is pending.
C2_Witness ==
  \E s \in Senders :
    /\ pc[s] = "done" /\ ~expect[s] /\ ret[s].err = NoErr
    /\ written[s] = [text |-> command[s], tag |-> NoID]
    /\ DOMAIN pendingCommands # {}

\* C3: a response line delivered while commands are outstanding resolves the
\* earliest-submitted one of them, whatever the id counter was when they
\* were submitted, and the caller gets the line with its #id suffix stripped.
C3_ResolvedInSubmissionOrder ==
  [][/\ \A l \in Listeners :
          (RouteStep(l) /\ DOMAIN pendingCommands # {} /\ content'[l] \in Lines)
            => resultCh'[pendingCommands[OldestID(pendingCommands)].ResultCh] = content'[l]
     /\ \A s \in Senders :
          (pc[s] = "woke_result" /\ pc'[s] = "done")
            => ret'[s] = [value |-> StripID(resultCh[s]), err |-> NoErr]]_vars

\* C4: a received line equal to the text of the oldest pending command is
\* discarded (table and result slots unchanged); a line that differs from it
\* resolves that command.
C4_EchoOfOldestDiscarded ==
  [][\A l \in Listeners :
       (RouteStep(l) /\ DOMAIN pendingCommands # {})
         => LET old == pendingCommands[OldestID(pendingCommands)]
            IN IF content'[l] = old.Command
               THEN pendingCommands' = pendingCommands /\ resultCh' = resultCh
               ELSE /\ resultCh'[old.ResultCh] = content'[l]
                    /\ old.CommandID \notin DOMAIN pendingCommands']_vars

\* C5: every iteration of the read loop that ends after the cleanup interval
\* has elapsed removes the commands pending for more than one second, whether
\* or not the read returned any byte.
C5_CleanupWithoutTraffic ==
  [][\A l \in Listeners :
       (lpc[l] \in {"read", "cleanup"} /\ lpc'[l] = "top" /\ cleanupDue[l])
         => \A id \in DOMAIN pendingCommands' : ~IsStale(pendingCommands'[id])]_vars

\* C6: a response-expecting send never ends in anything but a return with the
\* response, a connection error or a timeout error.
C6_ThreeOutcomes ==
  \A s \in Senders :
    expect[s] =>
      /\ pc[s] # "panic"
      /\ pc[s] = "done" => ret[s].err \in {NoErr, ErrConnection, ErrTimeout}

\* C7: every entry of the pending-command table belongs to a
\* response-expecting SendCommand call that has registered it and has not
\* returned.
C7_EntriesBelongToOpenCalls ==
  \A id \in DOMAIN pendingCommands :
    LET o == pendingCommands[id].ResultCh
    IN /\ expect[o]
       /\ cmdID[o] = id
       /\ pc[o] \in {"write", "select", "parked", "woke_stop", "woke_timeout", "panic"}

\* A response-expecting send has registered its entry, timed out and returned.
C7_Witness ==
  \E s \in Senders :
    pc[s] = "done" /\ expect[s] /\ ret[s].err = ErrTimeout /\ DOMAIN pendingCommands = {}

\* C8: when Disconnect signals the stop, every caller parked in the select of
\* a response-expecting send is woken by it and returns a connection error.
C8_DisconnectFailsPending ==
  [][/\ (cpc = "idle" /\ cpc' = "d_clear")
          => \A s \in Senders : pc[s] = "parked" => pc'[s] = "woke_stop"
     /\ \A s \in Senders :
          (pc[s] = "woke_stop" /\ pc'[s] = "done") => ret'[s].err = ErrConnection]_vars

\* C9: once Disconnect has returned, and until the next Connect, no read loop
\* is running.
C9_ReadLoopStopped ==
  (cpc = "idle" /\ stopChan \in stopClosed) => \A l \in Listeners : ~Running(l)

\* Three consecutive reconnect attempts have failed and none is in progress.
Exhausted ==
  /\ reconnectAttempts = maxReconnectAttempts
  /\ \A l \in Listeners : lpc[l] \notin {"rsleep", "rbaud"}

\* C10: the attempt counter never exceeds 3; once three consecutive attempts
\* have failed no further attempt starts, the state becomes Disconnected and
\* every read loop terminates, unless Connect is called again (which resets
\* the counter).  A process that has crashed runs no loop.
C10_ExhaustionIsTerminal ==
  /\ [](reconnectAttempts <= maxReconnectAttempts)
  /\ [][Exhausted => \A l \in Listeners : lpc'[l] # "rsleep"]_vars
  /\ (Exhausted /\ isConnected) ~> (~isConnected \/ Crashed)
  /\ \A l \in Listeners :
       (Exhausted /\ Running(l))
         ~> (~Running(l) \/ Crashed \/ reconnectAttempts < maxReconnectAttempts)

\* The read loop has given up after three failed attempts and has ended.
C10_Witness ==
  /\ reconnectAttempts = maxReconnectAttempts
  /\ ~isConnected
  /\ lpc[1] = "exited"
  /\ cpc = "idle" /\ stopChan = 1 /\ stopChan \notin stopClosed

\* A step in which the read loop of the first connection puts byte b
\* through the loop body.
ByteStep(b) == lpc[1] \in {"read", "bytes"} /\ lpc'[1] = "bytes" /\ lastByte' = b

\* The line as received, with surrounding whitespace removed.
C11_Trimmed(text) == TrimSpace(text)

\* The line with surrounding whitespace removed, then a leading ">>> "
\* marker removed and the rest trimmed again.
C11_Content(text) ==
  IF HasPrefix(TrimSpace(text), Marker)
  THEN TrimSpace(SubSeq(TrimSpace(text), Len(Marker) + 1, Len(TrimSpace(text))))
  ELSE TrimSpace(text)

\* C11 as stated: printable bytes are accumulated without any event while the
\* buffer has room, a CR adds nothing, and the LF after the CR hands on the
\* trimmed text of a non-blank buffer as one TextLine and no StateTelegram,
\* whatever the input mask, which stays as it was.
C11_Original ==
  [][\A b \in RxBytes :
       ByteStep(b) =>
         /\ (b >= SP \/ b = TAB)
              => /\ emitted' = <<>>
                 /\ lastButtonMask' = lastButtonMask
                 /\ Len(lineBuffer) < LineCap => lineBuffer' = Append(lineBuffer, b)
         /\ b = CR
              => /\ emitted' = <<>>
                 /\ lastButtonMask' = lastButtonMask
                 /\ lineBuffer' = lineBuffer
         /\ (b = LF /\ lastByte = CR /\ C11_Trimmed(lineBuffer) # <<>>)
              => /\ emitted' = <<TextLine(C11_Trimmed(lineBuffer))>>
                 /\ lastButtonMask' = lastButtonMask
                 /\ lineBuffer' = <<>>]_vars

\* C11 (amended): as above, the content of the TextLine being the trimmed
\* text with a leading ">>> " marker removed and trimmed again.
C11_LineEmittedOnCRLF ==
  [][\A b \in RxBytes :
       ByteStep(b) =>
         /\ (b >= SP \/ b = TAB)
              => /\ emitted' = <<>>
                 /\ lastButtonMask' = lastButtonMask
                 /\ Len(lineBuffer) < LineCap => lineBuffer' = Append(lineBuffer, b)
         /\ b = CR
              => /\ emitted' = <<>>
                 /\ lastButtonMask' = lastButtonMask
                 /\ lineBuffer' = lineBuffer
         /\ (b = LF /\ lastByte = CR /\ C11_Trimmed(lineBuffer) # <<>>)
              => /\ emitted' = <<TextLine(C11_Content(lineBuffer))>>
                 /\ lastButtonMask' = lastButtonMask
                 /\ lineBuffer' = <<>>]_vars

\* A CR LF has just completed the line "A" while the input mask is not 0.
C11_Witness ==
  /\ lastByte = LF
  /\ emitted = <<TextLine(<<LetterA>>)>>
  /\ lastButtonMask = 1
  /\ lineBuffer = <<>>

\* C12: a control byte other than TAB, CR and LF is handed on as
\* StateTelegram(b) in any state: no TextLine is handed on for it, and after
\* it the input mask is b, the buffer is empty and the flag is false.
C12_ControlByteIsTelegram ==
  [][\A b \in RxBytes :
       (ByteStep(b) /\ b < SP /\ b \notin {TAB, CR, LF})
         => /\ emitted' # <<>>
            /\ emitted'[Len(emitted')] = StateTelegram(b)
            /\ \A i \in 1..Len(emitted') : emitted'[i].kind = "StateTelegram"
            /\ lastButtonMask' = b
            /\ lineBuffer' = <<>>
            /\ ~expectingTextMode']_vars

\* The state byte 1 has just been handed on where a line was being
\* accumulated.
C12_Witness ==
  /\ lastByte = 1
  /\ emitted = <<StateTelegram(1)>>
  /\ lastButtonMask = 1
  /\ buttonStates = 1
  /\ lineBuffer = <<>>
  /\ ~expectingTextMode

\* C13 as stated: no byte makes the loop body hand on more than one event.
C13_Original == Len(emitted) <= 1

\* C13 (amended): a byte makes the loop body hand on at most one event,
\* except a control byte other than TAB, CR and LF that follows a CR, for
\* which it hands on StateTelegram(CR) and then StateTelegram(b).
C13_AtMostOneEventExceptAfterCR ==
  [][\A b \in RxBytes :
       ByteStep(b) =>
         \/ Len(emitted') <= 1
         \/ /\ b < SP /\ b \notin {TAB, CR, LF}
            /\ lastByte = CR
            /\ emitted' = <<StateTelegram(CR), StateTelegram(b)>>]_vars

\* A control byte after a CR has produced two events.
C13_Witness ==
  /\ lastByte = 1
  /\ emitted = <<StateTelegram(CR), StateTelegram(1)>>
  /\ lastButtonMask = 1

\* The caller's current operation is IsLocked on the left button.
QueryLeft == op = [name |-> "IsLocked", arg |-> "left"]

\* C14: once the controller's connection check has passed, an IsLocked on
\* the left button that immediately follows a successful Lock of LEFT
\* returns true, and one that follows a successful Unlock returns false,
\* in a single step that calls SendCommand not at all and leaves the
\* transport and the cache untouched.
C14_SetThenQueryIsCached ==
  [][(/\ opc = "mouse"
      /\ opc' # "mouse"
      /\ QueryLeft
      /\ prevOp.name \in {"Lock", "Unlock"}
      /\ prevOp.arg = "LEFT"
      /\ prevOp.err = NoErr)
     => /\ opc' = "done"
        /\ opret' = [value |-> BoolValue(prevOp.name = "Lock"), err |-> NoErr]
        /\ sends' = 0
        /\ UNCHANGED <<tvars, svars, lockStatesCache, cacheValid>>]_vars

C14_Witness ==
  /\ opc = "done"
  /\ QueryLeft
  /\ prevOp = [name |-> "Lock", arg |-> "LEFT", err |-> NoErr]
  /\ opret = [value |-> BoolValue(TRUE), err |-> NoErr]
  /\ sends = 0
  /\ connected

\* C15: an IsLocked on the left button that immediately follows
\* InvalidateCache and passes the connection check makes exactly one
\* SendCommand call, for the query command and expecting a response,
\* whatever the cache held; when it returns a value, that command was
\* written with an id tag and the value is the awaited response.
C15_InvalidateThenQueryAsksDevice ==
  [][(QueryLeft /\ prevOp.name = "InvalidateCache")
     => /\ opc = "mouse" /\ opc' # "mouse"
           => /\ opc' = "query"
              /\ sends' = 1
              /\ command'[Frame] = QueryCmd
              /\ expect'[Frame]
        /\ opc = "query" => sends' = 1
        /\ opc = "query" /\ opc' = "done" /\ opret'.err = NoErr
           => /\ written[Frame].text = QueryCmd
              /\ written[Frame].tag # NoID
              /\ opret'.value = BoolValue(TrimText(ret[Frame].value) = <<"1">>)]_vars

C15_Witness ==
  /\ opc = "done"
  /\ QueryLeft
  /\ prevOp.name = "InvalidateCache"
  /\ opCount = 2
  /\ opret = [value |-> BoolValue(TRUE), err |-> NoErr]
  /\ sends = 1
  /\ written[Frame].text = QueryCmd

\* C16: an IsLocked that found the cache invalid, queried the device and
\* returned its answer leaves the cache valid.
C16_QueryMarksCacheValid ==
  (/\ opc = "done"
   /\ op.name = "IsLocked"
   /\ sends = 1
   /\ opret.err = NoErr)
  => cacheValid

\* C17: cacheValid goes from true to false only in a step of
\* InvalidateCache; no connect, disconnect, send, response or failed
\* operation clears it.
C17_OnlyInvalidateClears ==
  [][(cacheValid /\ ~cacheValid')
     => /\ opc = "idle"
        /\ opc' = "done"
        /\ op' = [name |-> "InvalidateCache", arg |-> "-"]]_vars

C17_Witness ==
  /\ cacheValid
  /\ ~connected
  /\ serialPort = "nil"
  /\ opCount = 2
  /\ prevOp.err # NoErr
  /\ opc = "done"
  /\ opret.err # NoErr

\* C18: when a read fails while the transport is connected and
\* auto-reconnect is off, the read loop stops and the transport is
\* Disconnected (IsConnected reports false), so that a later Connect opens
\* the channel again and starts a new loop.
C18_UnrecoveredReadErrorDisconnects ==
  [][\A l \in Listeners :
       (lpc[l] = "read" /\ lpc'[l] = "exited" /\ ~autoReconnect)
       => ~isConnected']_vars

\* C19: at most one read loop is running at any time.
C19_AtMostOneReadLoop ==
  Cardinality({l \in Listeners : Running(l)}) <= 1

\* The sentinels of errors.go 6-11 that a MakcuError can wrap.
TypedKinds == {ErrConnection, ErrCommand, ErrTimeout, ErrResponse}

\* C20: every error a controller operation returns is of one of the typed
\* kinds connection, command, timeout or response.
C20_ErrorsAreTyped ==
  (opc = "done" /\ opret.err # NoErr) => opret.err \in TypedKinds

\* MakcuController.IsConnected (controller.go 106-108) over
\* SerialTransport.IsConnected (connection.go 301-303).
IsConnected == connected /\ isConnected /\ serialPort # "nil"

\* C21: a registered connection callback is invoked with the new state on
\* every change of the connection state and not otherwise, so whenever no
\* Connect or Disconnect call is in progress, the state it was last told
\* is the state IsConnected reports (Disconnected before any call).
C21_CallbackTracksState ==
  cpc = "idle"
  => callbackArg = (IF callbackArg = NoCall /\ ~IsConnected
                    THEN NoCall ELSE NotifyArg(IsConnected))

\* No Connect has completed its handshake yet.
NeverConnected == stopChan = 0 /\ ~isConnected

\* C22: from construction until a Connect succeeds, for either setting of
\* AutoReconnect, the controller is Disconnected: IsConnected is false, the
\* pending-command table is empty, the input mask is 0, the lock cache is
\* invalid and no read loop is running.
C22_StartsDisconnected ==
  NeverConnected
  => /\ ~IsConnected
     /\ pendingCommands = <<>>
     /\ lastButtonMask = 0
     /\ buttonStates = 0
     /\ ~cacheValid
     /\ \A l \in Listeners : lpc[l] = "none"

C22_Witness ==
  /\ NeverConnected
  /\ autoReconnect
  /\ cpc = "c_baud"
  /\ serialPort = "open"
  /\ pc["s1"] = "done"
  /\ ret["s1"].err = ErrConnection

\* Two different contexts are inside an access to the same table or cache.
Overlap(res) ==
  \E c1, c2 \in Contexts :
    /\ c1 # c2
    /\ at[c1].phase = "in" /\ at[c1].res = res
    /\ at[c2].phase = "in" /\ at[c2].res = res

\* C23: no two execution contexts are inside an access to the
\* pending-command table, to the input-state cache or to the lock cache at
\* the same time.
C23_MutualExclusion ==
  ~Overlap("table") /\ ~Overlap("input") /\ ~Overlap("cache")

\* The call of s has been given its id by generateCommandID and has not
\* returned.
InFlight(s) == pc[s] \in {"register", "write", "select", "parked"}

\* C24: no two commands in flight at the same time hold the same
\* correlation id, and every id is within 0..9999.
C24_IdsInFlightAreDistinct ==
  \A s, t \in Senders :
    (s # t /\ InFlight(s) /\ InFlight(t))
    => /\ cmdID[s] # cmdID[t]
       /\ cmdID[s] \in 0..(IdModulus - 1)

\* The step is a return of Connect with an error.
ConnectFails ==
  /\ cpc' = "idle"
  /\ connectRet' # NoErr
  /\ cpc = "c_baud" \/ (cpc = "idle" /\ connectRet' # connectRet)

\* C25: a Connect that fails returns a connection error, has closed the
\* channel it opened, leaves the state Disconnected and starts no read
\* loop; and the
\* transport is marked connected only by the step that completes the
\* handshake.
C25_FailedConnectIsClean ==
  [][/\ ConnectFails
        => /\ connectRet' = ErrConnection
           /\ serialPort' = (IF cpc = "c_baud" THEN "nil" ELSE serialPort)
           /\ ~isConnected'
           /\ UNCHANGED <<lpc, connected, stopChan>>
     /\ (~isConnected /\ isConnected')
        => (cpc = "c_baud" /\ serialPort = "open" /\ cpc' = "c_start")]_vars

\* C26: in every reachable table the entry with the numerically lowest id
\* is the earliest-submitted command still pending, also after the id
\* counter has wrapped from 9999 to 0.
C26_LowestIdIsOldest ==
  DOMAIN pendingCommands # {}
  => LowestID(pendingCommands) = OldestID(pendingCommands)

\* C27: a text line handed to routing while commands are pending, and that
\* is not the echo of the lowest-id command, resolves that lowest-id
\* command whatever id the line's #id suffix names, also the id of a
\* command that has timed out; the suffix is only stripped.
C27_RoutingIgnoresTag ==
  [][/\ \A l \in Listeners :
          (/\ RouteStep(l)
           /\ DOMAIN pendingCommands # {}
           /\ content'[l] # NoLine
           /\ content'[l] # pendingCommands[LowestID(pendingCommands)].Command)
          => LET pending == pendingCommands[LowestID(pendingCommands)]
             IN /\ pending.CommandID \notin DOMAIN pendingCommands'
                /\ resultCh[pending.ResultCh] = NoLine
                   => resultCh'[pending.ResultCh] = content'[l]
     /\ \A s \in Senders :
          (pc[s] = "woke_result" /\ pc'[s] = "done")
          => ret'[s].value = StripID(resultCh[s])]_vars

\* Command A (id 1) has timed out, and its late reply "1#1" has been
\* returned as the result of command B (id 2).
C27_Witness ==
  /\ pc["s1"] = "done" /\ ret["s1"].err = ErrTimeout /\ written["s1"].tag = 1
  /\ pc["s2"] = "done"
  /\ written["s2"].tag = 2
  /\ TagText(content[1]) = IdText(1)
  /\ ret["s2"] = [value |-> <<"1">>, err |-> NoErr]

\* The heuristic that makes a bare LF a state byte: the input mask is not
\* 0, or the previous byte was a control byte other than CR, or text is
\* buffered while none is expected.
LFIsTelegram ==
  \/ lastButtonMask # 0
  \/ (lastByte >= 0 /\ lastByte < SP /\ lastByte # CR)
  \/ (lineBuffer # <<>> /\ ~expectingTextMode)

\* C28 as stated: for an LF not preceded by CR, the heuristic gives
\* StateTelegram(0x0A) and clears the buffer; otherwise expected text in a
\* non-empty buffer is handed on as TextLine(trim(buffer)), expected text
\* with an empty buffer only clears the flag, and the rest is
\* StateTelegram(0x0A).
C28_Original ==
  [][(ByteStep(LF) /\ lastByte # CR)
     => IF LFIsTelegram
        THEN emitted' = <<StateTelegram(LF)>> /\ lineBuffer' = <<>>
        ELSE IF expectingTextMode /\ lineBuffer # <<>>
        THEN emitted' = <<TextLine(TrimSpace(lineBuffer))>>
        ELSE IF expectingTextMode
        THEN /\ emitted' = <<>>
             /\ ~expectingTextMode'
             /\ UNCHANGED <<lineBuffer, lastButtonMask, buttonStates>>
        ELSE emitted' = <<StateTelegram(LF)>>]_vars

\* C28 (amended): as above, except that the expected text of a non-empty
\* buffer is handed on as parsed (trimmed, a leading ">>> " marker removed,
\* trimmed again), and is dropped without any event when that is empty;
\* buffer and flag are cleared in both cases.
C28_BareLF ==
  [][(ByteStep(LF) /\ lastByte # CR)
     => IF LFIsTelegram
        THEN /\ emitted' = <<StateTelegram(LF)>>
             /\ lineBuffer' = <<>>
             /\ ~expectingTextMode'
             /\ lastButtonMask' = LF
        ELSE IF expectingTextMode /\ lineBuffer # <<>>
        THEN /\ emitted' = IF parseResponseLine(lineBuffer) = <<>> THEN <<>>
                           ELSE <<TextLine(parseResponseLine(lineBuffer))>>
             /\ lineBuffer' = <<>>
             /\ ~expectingTextMode'
             /\ UNCHANGED <<lastButtonMask, buttonStates>>
        ELSE IF expectingTextMode
        THEN /\ emitted' = <<>>
             /\ ~expectingTextMode'
             /\ UNCHANGED <<lineBuffer, lastButtonMask, buttonStates>>
        ELSE /\ emitted' = <<StateTelegram(LF)>>
             /\ lastButtonMask' = LF]_vars

\* A bare LF has been taken as a state byte: the mask is now 0x0A
\* (buttons 2 and 4 down).
C28_Witness ==
  /\ lastByte = LF
  /\ emitted = <<StateTelegram(LF)>>
  /\ lastButtonMask = LF
  /\ buttonStates = LF
  /\ lineBuffer = <<>>
  /\ ~expectingTextMode

\* C29: a control byte b (below 0x20, not TAB, CR or LF) that follows a CR
\* is handed on as StateTelegram(0x0D) and then StateTelegram(b), in that
\* order; after any other previous byte only StateTelegram(b) is handed on;
\* in both cases the buffered text is discarded and no line is routed.
C29_PendingCRFirst ==
  [][\A b \in ControlBytes \ {CR, LF} :
       ByteStep(b)
       => /\ emitted' = IF lastByte = CR
                        THEN <<StateTelegram(CR), StateTelegram(b)>>
                        ELSE <<StateTelegram(b)>>
          /\ lineBuffer' = <<>>
          /\ ~expectingTextMode'
          /\ lastButtonMask' = b
          /\ content'[1] = NoLine]_vars

\* Text, a CR and then the control byte 0 have been received: the CR and
\* the 0 were handed on in that order and all buttons are up again.
C29_Witness ==
  /\ lastByte = 0
  /\ emitted = <<StateTelegram(CR), StateTelegram(0)>>
  /\ lastButtonMask = 0
  /\ buttonStates = 0
  /\ lineBuffer = <<>>

IsDigit(c) == c \in {DigitText[i] : i \in 1..10}

\* The position of the '#' of a trailing "#id" suffix (a '#' followed by
\* digits only, up to the end of the line), 0 when the line has none.
SuffixStart(line) ==
  LET starts == {i \in 1..(Len(line) - 1) :
                   /\ line[i] = "#"
                   /\ \A j \in (i + 1)..Len(line) : IsDigit(line[j])}
  IN IF starts = {} THEN 0 ELSE CHOOSE i \in starts : \A j \in starts : j <= i

\* The line without its trailing "#id" suffix.
WithoutSuffix(line) ==
  IF SuffixStart(line) > 0 THEN SubSeq(line, 1, SuffixStart(line) - 1) ELSE line

\* C31: a response-expecting send that succeeds returns the delivered line
\* with only its trailing "#id" suffix removed: a line without '#' is
\* returned as it is, and everything before the trailing suffix is kept.
C31_OnlyTrailingTagStripped ==
  [][\A s \in Senders :
       (pc[s] = "woke_result" /\ pc'[s] = "done")
         => ret'[s] = [value |-> WithoutSuffix(resultCh[s]), err |-> NoErr]]_vars

\* A step in which read loop l puts a received byte through the loop body
\* (and no other goroutine acts).
LoopBodyStep(l) ==
  /\ lpc[l] \in {"read", "bytes"}
  /\ lpc' = [lpc EXCEPT ![l] = "bytes"]
  /\ UNCHANGED <<tvars, cpc, fvars, buttonCallback>>

\* The bits 0..4 in which v differs from mask.
ChangedButtons(mask, v) == {i \in 0..4 : Bit(v, i) # Bit(mask, i)}

\* C32: a state byte equal to the last known mask changes nothing and calls
\* nothing; otherwise the registered callback is called exactly once for
\* each of the bits 0..4 that differ from the previous mask, with that
\* bit's value in the byte, for no other bit, and the mask becomes the byte.
C32_OneCallPerChangedBit ==
  [][\A l \in Listeners, v \in 0..255 :
       (/\ LoopBodyStep(l)
        /\ emitted' = <<StateTelegram(v)>>
        /\ buttonCallback)
         => IF v = lastButtonMask
            THEN /\ buttonCalls' = <<>>
                 /\ UNCHANGED <<lastButtonMask, buttonStates>>
            ELSE /\ Len(buttonCalls') = Cardinality(ChangedButtons(lastButtonMask, v))
                 /\ {buttonCalls'[i] : i \in 1..Len(buttonCalls')}
                      = {[button |-> buttonEnumMap[i + 1], pressed |-> Bit(v, i) = 1] :
                           i \in ChangedButtons(lastButtonMask, v)}
                 /\ lastButtonMask' = v]_vars

\* The callback has just been told that the left button was released and
\* mouse5 pressed, in one state byte.
C32_Witness ==
  /\ buttonCallback
  /\ emitted = <<StateTelegram(16)>>
  /\ buttonCalls = <<[button |-> "left", pressed |-> FALSE],
                     [button |-> "mouse5", pressed |-> TRUE]>>

\* Read loop l completes a reconnect attempt successfully.
ReconnectSucceeds(l) ==
  /\ lpc[l] = "rbaud"
  /\ lpc'[l] = "top"
  /\ serialPort' = "open"

\* C33: a successful reconnect attempt resets the attempt counter to 0 and
\* leaves the transport Connected with the reopened channel, on which the
\* loop goes on reading; the attempt counter never exceeds 3; and an
\* attempt closes the old channel, then reopens it, then redoes the
\* handshake, before the loop reads again.
C33_ReconnectRestoresConnection ==
  /\ [](reconnectAttempts <= maxReconnectAttempts)
  /\ [][\A l \in Listeners :
          /\ ReconnectSucceeds(l)
               => reconnectAttempts' = 0 /\ isConnected' /\ stopChan \notin stopClosed
          /\ (lpc[l] = "rinc" /\ lpc'[l] # "rinc") => serialPort' # "open"
          /\ (lpc[l] # "read" /\ lpc'[l] = "read") => lpc[l] = "top"
          /\ (lpc[l] \in {"rinc", "rsleep", "rbaud"} /\ lpc'[l] = "top")
               => (lpc[l] = "rbaud" \/ serialPort' # "open" \/ serialPort = "open")]_vars

\* C34: whatever way a SendCommand call interleaves with Disconnect, the
\* call either fails with a connection error or performs its write on a
\* channel that is still open; it never reaches its write with the channel
\* closed or set to nil.
C34_SendNeverUsesClosedChannel ==
  [][\A s \in Senders :
       (pc[s] = "write" /\ pc'[s] # "write") => serialPort = "open"]_vars

\* Disconnect has returned, or reconnection was given up, and no Connect
\* has been called since.
DisconnectedAtRest ==
  /\ cpc = "idle"
  /\ ~isConnected
  /\ \/ stopChan \in stopClosed
     \/ reconnectAttempts >= maxReconnectAttempts

\* C35: while the transport is Disconnected, after Disconnect has returned
\* or after reconnection was exhausted and until the next Connect, the
\* pending-command table is empty.
C35_DisconnectedTableIsEmpty ==
  DisconnectedAtRest => DOMAIN pendingCommands = {}

\* Read loop l routes a line that is not an echo while commands are pending.
Delivers(l) ==
  /\ RouteStep(l)
  /\ DOMAIN pendingCommands # {}
  /\ content'[l] # NoLine
  /\ content'[l] # pendingCommands[LowestID(pendingCommands)].Command

\* C36: the result slot of a pending command is empty whenever a line is
\* routed to it, so the non-blocking delivery always places the line; the
\* entry is removed in the same step; and a slot that holds a value is not
\* written again.
C36_SlotReceivesAtMostOneValue ==
  [][/\ \A l \in Listeners :
          Delivers(l)
            => LET id == LowestID(pendingCommands)
                   owner == pendingCommands[id].ResultCh
               IN /\ resultCh[owner] = NoLine
                  /\ resultCh'[owner] = content'[l]
                  /\ id \notin DOMAIN pendingCommands'
     /\ \A s \in Senders :
          resultCh[s] # NoLine => resultCh'[s] \in {resultCh[s], NoLine}]_vars

\* A line was delivered into the slot of a caller that had not reached its
\* select yet, and its entry is gone.
C36_Witness ==
  \E s \in Senders :
    /\ pc[s] = "select"
    /\ resultCh[s] \in Lines
    /\ cmdID[s] \notin DOMAIN pendingCommands

\* The caller's previous operation was a successful Lock or Unlock of LEFT.
AfterSetLeft ==
  /\ prevOp.name \in {"Lock", "Unlock"}
  /\ prevOp.arg = "LEFT"
  /\ prevOp.err = NoErr

\* C37: one successful setLock makes the whole cache valid.  An IsLocked of
\* another target (the right button) or a GetAllLockStates that follows it
\* and passes the connection check answers in a single step from the
\* stored bits, without any SendCommand call and without touching the
\* transport or the cache; a target never set or queried is reported
\* false; and the setLock changes no bit but its target's.
C37_SetLockValidatesWholeCache ==
  [][/\ (/\ opc = "mouse" /\ opc' # "mouse"
         /\ op = [name |-> "IsLocked", arg |-> "right"]
         /\ AfterSetLeft)
        => /\ opc' = "done"
           /\ sends' = 0
           /\ opret' = [value |-> BoolValue("RIGHT" \in lockStatesCache), err |-> NoErr]
           /\ opCount = 1 => opret'.value = BoolValue(FALSE)
           /\ UNCHANGED <<tvars, svars, lockStatesCache, cacheValid>>
     /\ (/\ opc = "mouse" /\ opc' # "mouse"
         /\ op.name = "GetAllLockStates"
         /\ AfterSetLeft)
        => /\ opc' = "done"
           /\ sends' = 0
           /\ opret'.err = NoErr
           /\ opret'.value[1] = StateText(prevOp.name = "Lock")
           /\ \A i \in 2..Len(Targets) :
                /\ opret'.value[i] = StateText(Targets[i] \in lockStatesCache)
                /\ opCount = 1 => opret'.value[i] = StateText(FALSE)
           /\ UNCHANGED <<tvars, svars, lockStatesCache, cacheValid>>
     /\ (opc = "call" /\ opc' = "done" /\ op.name \in {"Lock", "Unlock"})
        => lockStatesCache' \ {op.arg} = lockStatesCache \ {op.arg}]_vars

\* On a new controller, Lock(LEFT) succeeded and the GetAllLockStates after
\* it has answered without a round trip: LEFT locked, RIGHT not.
C37_Witness ==
  /\ opc = "done"
  /\ op.name = "GetAllLockStates"
  /\ prevOp = [name |-> "Lock", arg |-> "LEFT", err |-> NoErr]
  /\ opCount = 1
  /\ sends = 0
  /\ opret = [value |-> <<"true">> \o [i \in 1..(Len(Targets) - 1) |-> "false"],
              err |-> NoErr]
  /\ connected

\* C38: GetAllLockStates on an invalid cache queries every target in turn
\* and marks the cache valid whatever the queries returned: a target whose
\* query failed is reported false and keeps its bit, no error is returned,
\* and an IsLocked that follows is answered from the bit without a round
\* trip.
C38_FailedQueriesStillValidate ==
  [][/\ (opc = "getall" /\ pc[Frame] = "done" /\ (opc' # opc \/ sends' # sends))
        => /\ command[Frame] = QueryCmdOf(Targets[sends])
           /\ ret[Frame].err # NoErr
                => /\ UNCHANGED lockStatesCache
                   /\ opret'.value = Append(opret.value, "false")
           /\ opret'.err = NoErr
           /\ IF sends < Len(Targets)
              THEN opc' = "getall" /\ sends' = sends + 1
              ELSE opc' = "done" /\ cacheValid' /\ Len(opret'.value) = Len(Targets)
     /\ (/\ opc = "mouse" /\ opc' # "mouse"
         /\ op = [name |-> "IsLocked", arg |-> "right"]
         /\ prevOp = [name |-> "GetAllLockStates", arg |-> "-", err |-> NoErr])
        => /\ opc' = "done"
           /\ sends' = 0
           /\ opret' = [value |-> BoolValue("RIGHT" \in lockStatesCache), err |-> NoErr]
           /\ UNCHANGED <<tvars, svars, lockStatesCache, cacheValid>>]_vars

\* An IsLocked had found RIGHT locked; the GetAllLockStates after it has
\* queried every target, its query of RIGHT failed: RIGHT is reported
\* false, its bit is still set and the cache is valid.
C38_Witness ==
  /\ opc = "done"
  /\ op.name = "GetAllLockStates"
  /\ prevOp = [name |-> "IsLocked", arg |-> "right", err |-> NoErr]
  /\ sends = Len(Targets)
  /\ opret.err = NoErr
  /\ opret.value[2] = "false"
  /\ "RIGHT" \in lockStatesCache
  /\ cacheValid

\* ---- C39
\* A read loop is inside handleButtonData.
InApply == \E l \in Listeners : lpc[l] = "apply"

\* GetButtonStates()[name of bit i] (connection.go 314-319), which IsPressed
\* returns (controller.go 378-379).
GetButtonStates(i) == Bit(buttonStates, i) = 1

\* GetButtonMask() (connection.go 322-324).
GetButtonMask == lastButtonMask

\* A step of a read loop that handles a received state byte.
StateByteStep ==
  \E l \in Listeners : lpc[l] \in {"read", "bytes", "apply"} /\ lpc'[l] \in {"bytes", "apply"}

\* C39: while no handleButtonData call is running, the pressed states equal
\* the last mask and both lie in 0..31, so GetButtonStates and IsPressed
\* report button i exactly when bit i of GetButtonMask is set; and only a
\* received state byte changes the mask (no step of Connect, Disconnect or
\* attemptReconnect does).
C39_PressedStatesEqualMask ==
  /\ [](~InApply => /\ buttonStates = lastButtonMask
                    /\ lastButtonMask \in 0..31
                    /\ buttonStates \in 0..31
                    /\ \A i \in 0..4 : GetButtonStates(i) <=> Bit(GetButtonMask, i) = 1)
  /\ [][lastButtonMask' # lastButtonMask => StateByteStep]_vars

\* ---- C40
\* The branch of the switch (connection.go 497-573) that byte b takes in the
\* current state of the loop.
DemuxBranch(b) ==
  IF lastByte = CR /\ b = LF THEN "crlf"
  ELSE IF b >= 32 \/ b = TAB THEN "text"
  ELSE IF b = CR THEN "cr"
  ELSE IF b = LF
  THEN IF \/ lastButtonMask # 0
          \/ (lastByte >= 0 /\ lastByte < 32 /\ lastByte # CR)
          \/ (Len(lineBuffer) > 0 /\ ~expectingTextMode)
       THEN "lf_telegram"
       ELSE IF lastByte = CR THEN "lf_completing_crlf"
       ELSE IF Len(lineBuffer) > 0 /\ expectingTextMode THEN "lf_line_end"
       ELSE IF expectingTextMode THEN "lf_blank"
       ELSE "lf_state"
  ELSE "control"

\* Lines 526-528: the third condition of the bare-LF rule is the only one
\* that holds.
OnlyThirdCondition ==
  /\ lastButtonMask = 0
  /\ ~(lastByte >= 0 /\ lastByte < 32 /\ lastByte # CR)
  /\ Len(lineBuffer) > 0 /\ ~expectingTextMode

\* C40: in every state of the read loop a non-empty line buffer implies
\* expectingTextMode; so the third condition of the bare-LF rule is never the
\* one that makes an LF a state telegram, and no byte takes the 'completing
\* CRLF' branch of the bare-LF case.
C40_BufferImpliesExpectingText ==
  /\ Len(lineBuffer) > 0 => expectingTextMode
  /\ ~OnlyThirdCondition
  /\ \A b \in RxBytes : DemuxBranch(b) # "lf_completing_crlf"

\* Text is buffered after a state byte set the mask: the LF that follows is
\* a state telegram by the first condition.
C40_Witness ==
  /\ lpc[1] = "bytes"
  /\ Len(lineBuffer) > 0
  /\ expectingTextMode
  /\ lastButtonMask # 0
  /\ DemuxBranch(LF) = "lf_telegram"

====
